---- MODULE Spec2Model ----
(***************************************************************************)
(* Chat-driven task management front end (786asghar/Todo_Cli).             *)
(*                                                                         *)
(* The model covers ChatComponent.tsx (handleSendMessage and its helpers), *)
(* ChatUI.tsx (mount, handleSend, unmount), chatApi.sendMessage and        *)
(* chatApi.cancelCurrentRequest, and api.request with its verb wrappers,   *)
(* SkillsList.tsx (fetchSkills, handleDelete) and the route middleware.    *)
(* The repository holds two builds of the lib/ layer:                      *)
(*   "frontend": src/frontend/src/lib/api.ts + chatApi.ts                  *)
(*               (api.request arms a 30 s timer of its own; chatApi calls  *)
(*                api.post(endpoint, body, {signal}) and api.post drops    *)
(*                its third argument)                                      *)
(*   "unnamed" : src/unnamed/part_007 (api.ts) + part_008 (chatApi.ts)     *)
(*               (api.request has no timer; chatApi calls fetch itself     *)
(*                with the signal of currentAbortController)               *)
(* The variable build says which one the running page was bundled from.    *)
(*                                                                         *)
(* Text is modelled by TLA+ strings, read character by character with      *)
(* SubSeq.  The glyphs U+2713 and U+2717 that open the success and failure *)
(* messages are written "[ok]" and "[x]".                                  *)
(***************************************************************************)
EXTENDS Integers, Sequences, FiniteSets, TLC

(***************************************************************************)
(* Strings                                                                 *)
(***************************************************************************)
Char(s, i) == SubSeq(s, i, i)

Slice(s, i) == SubSeq(s, i, Len(s))

UpperChars == "ABCDEFGHIJKLMNOPQRSTUVWXYZ"

LowerChars == "abcdefghijklmnopqrstuvwxyz"

DigitChars == "0123456789"

IndexIn(alphabet, ch) ==
    IF \E k \in 1..Len(alphabet) : Char(alphabet, k) = ch
    THEN CHOOSE k \in 1..Len(alphabet) : Char(alphabet, k) = ch
    ELSE 0

LowerCh(ch) ==
    IF IndexIn(UpperChars, ch) > 0 THEN Char(LowerChars, IndexIn(UpperChars, ch)) ELSE ch

UpperCh(ch) ==
    IF IndexIn(LowerChars, ch) > 0 THEN Char(UpperChars, IndexIn(LowerChars, ch)) ELSE ch

RECURSIVE toLowerCase(_)
toLowerCase(s) == IF s = "" THEN "" ELSE LowerCh(Char(s, 1)) \o toLowerCase(Slice(s, 2))

IsSpace(ch) == ch \in {" ", "\t", "\n", "\r"}

IsLineEnd(ch) == ch \in {"\n", "\r"}

IsDigit(ch) == IndexIn(DigitChars, ch) > 0

IsHex(ch) == IsDigit(ch) \/ LowerCh(ch) \in {"a", "b", "c", "d", "e", "f"}

RECURSIVE trimStart(_)
trimStart(s) == IF s # "" /\ IsSpace(Char(s, 1)) THEN trimStart(Slice(s, 2)) ELSE s

RECURSIVE trimEnd(_)
trimEnd(s) ==
    IF s # "" /\ IsSpace(Char(s, Len(s))) THEN trimEnd(SubSeq(s, 1, Len(s) - 1)) ELSE s

trim(s) == trimEnd(trimStart(s))

\* String.prototype.indexOf for a one-character needle: 1-based here, 0 when absent
indexOf(s, ch) ==
    IF \E k \in 1..Len(s) : Char(s, k) = ch
    THEN CHOOSE k \in 1..Len(s) : Char(s, k) = ch /\ \A j \in 1..(k - 1) : Char(s, j) # ch
    ELSE 0

\* String.prototype.includes
includes(s, needle) ==
    \E k \in 1..(Len(s) - Len(needle) + 1) : SubSeq(s, k, k + Len(needle) - 1) = needle

(***************************************************************************)
(* Regular expressions.  A pattern is a tree of tuples; Run gives every    *)
(* way the pattern matches s from position i, in the order a backtracking  *)
(* matcher tries them (greedy quantifiers, alternatives left to right), as *)
(* a sequence of <<next position, captures>>.  The first entry is the      *)
(* match RegExp.prototype.exec reports.  Literals are given in lower case  *)
(* and compared under the flag ci (the i flag of the pattern).             *)
(***************************************************************************)
Lit(w) == <<"lit", w>>

Cls(name) == <<"cls", name>>

Cat(ns) == <<"cat", ns>>

Alt(ns) == <<"alt", ns>>

Opt(n) == <<"opt", n>>

Plus(n) == <<"plus", n>>

Star(n) == <<"star", n>>

Cap(k, n) == <<"cap", k, n>>

Eos == <<"eos">>

Words(ws) == Alt([k \in 1..Len(ws) |-> Lit(ws[k])])

InClass(name, ch) ==
    CASE name = "space" -> IsSpace(ch)
      [] name = "digit" -> IsDigit(ch)
      [] name = "hex" -> IsHex(ch)
      [] name = "hexdash" -> IsHex(ch) \/ ch = "-"
      [] name = "any" -> ~IsLineEnd(ch)

NoCaps == <<"", "">>

RECURSIVE Run(_, _, _, _, _), RunCat(_, _, _, _, _), RunAlt(_, _, _, _, _), Each(_, _, _, _, _)
\* the matches of n from every state in rs (a sequence of <<position, captures>>), in order;
\* with again, each match longer than its start is extended by further rounds of n first
Each(n, s, rs, ci, again) ==
    IF rs = <<>> THEN <<>>
    ELSE LET r == Head(rs)
             here == Run(n, s, r[1], r[2], ci)
             more == IF again
                     THEN Each(n, s, SelectSeq(here, LAMBDA q : q[1] > r[1]), ci, TRUE)
                     ELSE <<>>
         IN  (IF again THEN more \o << r >> ELSE here) \o Each(n, s, Tail(rs), ci, again)

RunCat(ns, s, i, caps, ci) ==
    IF ns = <<>> THEN << <<i, caps>> >>
    ELSE LET first == Run(Head(ns), s, i, caps, ci)
             Rest[k \in 0..Len(first)] ==
                 IF k = 0 THEN <<>>
                 ELSE Rest[k - 1] \o RunCat(Tail(ns), s, first[k][1], first[k][2], ci)
         IN  Rest[Len(first)]

RunAlt(ns, s, i, caps, ci) ==
    IF ns = <<>> THEN <<>>
    ELSE Run(Head(ns), s, i, caps, ci) \o RunAlt(Tail(ns), s, i, caps, ci)

Run(n, s, i, caps, ci) ==
    CASE n[1] = "lit" ->
           LET w == n[2]
               got == IF i + Len(w) - 1 <= Len(s) THEN SubSeq(s, i, i + Len(w) - 1) ELSE ""
           IN  IF Len(got) = Len(w) /\ (IF ci THEN toLowerCase(got) ELSE got) = w
               THEN << <<i + Len(w), caps>> >> ELSE <<>>
      [] n[1] = "cls" ->
           IF i <= Len(s) /\ InClass(n[2], Char(s, i)) THEN << <<i + 1, caps>> >> ELSE <<>>
      [] n[1] = "cat" -> RunCat(n[2], s, i, caps, ci)
      [] n[1] = "alt" -> RunAlt(n[2], s, i, caps, ci)
      [] n[1] = "opt" -> Run(n[2], s, i, caps, ci) \o << <<i, caps>> >>
      [] n[1] = "plus" ->
           Each(n[2], s, SelectSeq(Run(n[2], s, i, caps, ci), LAMBDA q : q[1] > i), ci, TRUE)
      [] n[1] = "star" ->
           Each(n[2], s, SelectSeq(Run(n[2], s, i, caps, ci), LAMBDA q : q[1] > i), ci, TRUE)
               \o << <<i, caps>> >>
      [] n[1] = "cap" ->
           LET inner == Run(n[3], s, i, caps, ci)
           IN  [k \in 1..Len(inner) |->
                   <<inner[k][1], [inner[k][2] EXCEPT ![n[2]] = SubSeq(s, i, inner[k][1] - 1)]>>]
      [] n[1] = "eos" -> IF i = Len(s) + 1 THEN << <<i, caps>> >> ELSE <<>>

\* RegExp.prototype.exec for a pattern that opens with ^: the captures of the first
\* match from position 1, or <<>> (null)
execAnchored(re, s, ci) ==
    LET rs == Run(re, s, 1, NoCaps, ci) IN IF rs = <<>> THEN <<>> ELSE << Head(rs)[2] >>

\* RegExp.prototype.test for a pattern that opens with ^
testAnchored(re, s, ci) == Run(re, s, 1, NoCaps, ci) # <<>>

\* RegExp.prototype.exec for a pattern without ^: the leftmost start that matches
execSearch(re, s, ci) ==
    LET starts == {k \in 1..(Len(s) + 1) : Run(re, s, k, NoCaps, ci) # <<>>}
    IN  IF starts = {} THEN <<>>
        ELSE LET k == CHOOSE m \in starts : \A o \in starts : m <= o
             IN  << Head(Run(re, s, k, NoCaps, ci))[2] >>

Spaces == Plus(Cls("space"))

Reference == Alt(<<Plus(Cls("digit")), Plus(Cls("hexdash"))>>)

(***************************************************************************)
(* ChatComponent.tsx: the pure helpers                                     *)
(***************************************************************************)
\* /^(?:add|create|make|new)\s+(?:a\s+)?(?:task|todo|to-do)\s+(?:to|called|named|about|regarding)?\s*(.+)$/i
createPattern ==
    Cat(<<Words(<<"add", "create", "make", "new">>), Spaces,
          Opt(Cat(<<Lit("a"), Spaces>>)),
          Words(<<"task", "todo", "to-do">>), Spaces,
          Opt(Words(<<"to", "called", "named", "about", "regarding">>)),
          Star(Cls("space")), Cap(1, Plus(Cls("any"))), Eos>>)

\* /^(?:delete|remove|del)\s+(?:task\s+)?(\d+|[a-fA-F0-9\-]+)(?:\s+(.+))?$/i
deletePattern ==
    Cat(<<Words(<<"delete", "remove", "del">>), Spaces,
          Opt(Cat(<<Lit("task"), Spaces>>)),
          Cap(1, Reference), Opt(Cat(<<Spaces, Cap(2, Plus(Cls("any")))>>)), Eos>>)

\* /^(?:complete|finish|done|mark.*complete)\s+(?:task\s+)?(\d+|[a-fA-F0-9\-]+)(?:\s+(.+))?$/i
completePattern ==
    Cat(<<Alt(<<Lit("complete"), Lit("finish"), Lit("done"),
                Cat(<<Lit("mark"), Star(Cls("any")), Lit("complete")>>)>>), Spaces,
          Opt(Cat(<<Lit("task"), Spaces>>)),
          Cap(1, Reference), Opt(Cat(<<Spaces, Cap(2, Plus(Cls("any")))>>)), Eos>>)

\* /^(?:list|show|display|get)\s+(?:all\s+)?(?:my\s+)?(?:tasks|task)/i
listPattern ==
    Cat(<<Words(<<"list", "show", "display", "get">>), Spaces,
          Opt(Cat(<<Lit("all"), Spaces>>)), Opt(Cat(<<Lit("my"), Spaces>>)),
          Words(<<"tasks", "task">>)>>)

\* /^(?:summarize|summary|stats|statistics|overview|report)\s+(?:of\s+)?(?:my\s+)?(?:tasks|task)/i
summaryPattern ==
    Cat(<<Words(<<"summarize", "summary", "stats", "statistics", "overview", "report">>), Spaces,
          Opt(Cat(<<Lit("of"), Spaces>>)), Opt(Cat(<<Lit("my"), Spaces>>)),
          Words(<<"tasks", "task">>)>>)

\* /^(?:update|change|modify|edit)\s+(?:task\s+)?(\d+|[a-fA-F0-9\-]+)\s+(?:to|with|as)\s+(.+)$/i
updatePattern ==
    Cat(<<Words(<<"update", "change", "modify", "edit">>), Spaces,
          Opt(Cat(<<Lit("task"), Spaces>>)),
          Cap(1, Reference), Spaces, Words(<<"to", "with", "as">>), Spaces,
          Cap(2, Plus(Cls("any"))), Eos>>)

\* /^(?:to|for|about|regarding)\s+/ (no i flag)
fillerPattern == Cat(<<Words(<<"to", "for", "about", "regarding">>), Spaces>>)

\* title.replace(/^(?:to|for|about|regarding)\s+/, '')
stripFiller(title) ==
    LET rs == Run(fillerPattern, title, 1, NoCaps, FALSE)
    IN  IF rs = <<>> THEN title ELSE Slice(title, Head(rs)[1])

\* title.charAt(0).toUpperCase() + title.slice(1)
capitalize(title) == IF title = "" THEN "" ELSE UpperCh(Char(title, 1)) \o Slice(title, 2)

\* the title clean-up shared by detectTaskOperation and detectTaskIntent:
\* trim, cut at the first '.', trim, strip one leading filler word
cleanTitle(captured) ==
    LET t0 == trim(captured)
        titleEnd == IF indexOf(t0, ".") # 0 THEN indexOf(t0, ".") - 1 ELSE Len(t0)
    IN  stripFiller(trim(SubSeq(t0, 1, titleEnd)))

NoOperation == [isTaskOperation |-> FALSE, operation |-> "", taskId |-> "", title |-> ""]

TaskOperation(op, ref, title) ==
    [isTaskOperation |-> TRUE, operation |-> op, taskId |-> ref, title |-> title]

\* a variant that extracts the reference and the title from the lower-cased, trimmed input
detectLowered(userInput) ==
    LET lowerInput == trim(toLowerCase(userInput))
        Hit(re) == execAnchored(re, lowerInput, TRUE)
        c == Hit(createPattern)
        d == Hit(deletePattern)
        k == Hit(completePattern)
        u == Hit(updatePattern)
    IN  IF c # <<>> /\ c[1][1] # ""
            THEN TaskOperation("create", "", capitalize(cleanTitle(c[1][1])))
        ELSE IF d # <<>> /\ d[1][1] # "" THEN TaskOperation("delete", d[1][1], "")
        ELSE IF k # <<>> /\ k[1][1] # "" THEN TaskOperation("complete", k[1][1], "")
        ELSE IF testAnchored(listPattern, lowerInput, TRUE) THEN TaskOperation("list", "", "")
        ELSE IF testAnchored(summaryPattern, lowerInput, TRUE) THEN TaskOperation("summary", "", "")
        ELSE IF u # <<>> /\ u[1][1] # "" /\ u[1][2] # ""
            THEN TaskOperation("update", u[1][1], trim(u[1][2]))
        ELSE NoOperation

\* every pattern is tested on the lower-cased, trimmed input and then executed on the
\* input as typed; a pattern whose exec gives null falls through to the next one
detectTaskOperation(userInput) ==
    LET lowerInput == trim(toLowerCase(userInput))
        Hit(re) == IF testAnchored(re, lowerInput, TRUE)
                   THEN execAnchored(re, userInput, TRUE) ELSE <<>>
        c == Hit(createPattern)
        d == Hit(deletePattern)
        k == Hit(completePattern)
        u == Hit(updatePattern)
    IN  IF c # <<>> /\ c[1][1] # ""
            THEN TaskOperation("create", "", capitalize(cleanTitle(c[1][1])))
        ELSE IF d # <<>> /\ d[1][1] # "" THEN TaskOperation("delete", d[1][1], "")
        ELSE IF k # <<>> /\ k[1][1] # "" THEN TaskOperation("complete", k[1][1], "")
        ELSE IF testAnchored(listPattern, lowerInput, TRUE) THEN TaskOperation("list", "", "")
        ELSE IF testAnchored(summaryPattern, lowerInput, TRUE) THEN TaskOperation("summary", "", "")
        ELSE IF u # <<>> /\ u[1][1] # "" /\ u[1][2] # ""
            THEN TaskOperation("update", u[1][1], trim(u[1][2]))
        ELSE NoOperation

\* /(?:add|create|make|new)\s+(?:a\s+)?(?:task|todo|to-do)\s+(?:to|called|named|about|regarding)?\s*(.+)/i
addTaskPattern ==
    Cat(<<Words(<<"add", "create", "make", "new">>), Spaces,
          Opt(Cat(<<Lit("a"), Spaces>>)),
          Words(<<"task", "todo", "to-do">>), Spaces,
          Opt(Words(<<"to", "called", "named", "about", "regarding">>)),
          Star(Cls("space")), Cap(1, Plus(Cls("any")))>>)

\* /(?:task|todo|to-do):\s*(.+)/i
taskPattern ==
    Cat(<<Words(<<"task", "todo", "to-do">>), Lit(":"), Star(Cls("space")),
          Cap(1, Plus(Cls("any")))>>)

\* the title detectTaskIntent extracts from a chat reply, "" when it extracts none (the
\* caller reads only isTaskIntent && title, so the 'delete' intent, which has no title,
\* is the same to it as no intent)
detectTaskIntent(responseText) ==
    LET m1 == execSearch(addTaskPattern, responseText, TRUE)
        titleMatch == IF m1 # <<>> THEN m1 ELSE execSearch(taskPattern, responseText, TRUE)
        title == IF titleMatch = <<>> THEN "" ELSE cleanTitle(titleMatch[1][1])
    IN  [isTaskIntent |-> title # "", title |-> capitalize(title), description |-> responseText]

\* /^[0-9a-f]{8}-[0-9a-f]{4}-[0-9a-f]{4}-[0-9a-f]{4}-[0-9a-f]{12}$/i
uuidTest(s) ==
    /\ Len(s) = 36
    /\ \A k \in 1..36 : IF k \in {9, 14, 19, 24} THEN Char(s, k) = "-" ELSE IsHex(Char(s, k))

\* parseInt(s): optional white space and sign, then the longest run of decimal digits;
\* nan when there is no digit (the references the patterns capture hold no "0x" prefix)
RECURSIVE digitsValue(_, _)
digitsValue(s, acc) ==
    IF s # "" /\ IsDigit(Char(s, 1))
    THEN digitsValue(Slice(s, 2), 10 * acc + (IndexIn(DigitChars, Char(s, 1)) - 1))
    ELSE acc

parseInt(s) ==
    LET t == trimStart(s)
        neg == t # "" /\ Char(t, 1) = "-"
        body == IF t # "" /\ Char(t, 1) \in {"-", "+"} THEN Slice(t, 2) ELSE t
    IN  IF body = "" \/ ~IsDigit(Char(body, 1)) THEN [nan |-> TRUE, value |-> 0]
        ELSE [nan |-> FALSE, value |-> IF neg THEN 0 - digitsValue(body, 0) ELSE digitsValue(body, 0)]

\* a variant that reads an integer reference as a 0-based index
resolveZeroBased(taskId, taskList) ==
    IF uuidTest(taskId) THEN taskId
    ELSE LET taskIndex == parseInt(taskId)
         IN  IF ~taskIndex.nan /\ taskIndex.value >= 0 /\ taskIndex.value < Len(taskList)
             THEN taskList[taskIndex.value + 1].id
             ELSE ""

\* a variant that returns a reference of the UUID shape only when a task of the list has it
resolveListed(taskId, taskList) ==
    IF uuidTest(taskId)
    THEN IF \E k \in 1..Len(taskList) : taskList[k].id = taskId THEN taskId ELSE ""
    ELSE LET taskIndex == parseInt(taskId)
         IN  IF ~taskIndex.nan /\ taskIndex.value > 0 /\ taskIndex.value <= Len(taskList)
             THEN taskList[taskIndex.value].id
             ELSE ""

\* resolveTaskId: the id, or "" for null
resolveTaskId(taskId, taskList) ==
    IF uuidTest(taskId) THEN taskId
    ELSE LET taskIndex == parseInt(taskId)
         IN  IF ~taskIndex.nan /\ taskIndex.value > 0 /\ taskIndex.value <= Len(taskList)
             THEN taskList[taskIndex.value].id
             ELSE ""

(***************************************************************************)
(* Bounds and constants                                                    *)
(***************************************************************************)
\* handleSendMessage invocations that get past the blank check, in Spec
MaxCalls == 2

\* the same, in SpecChat, where every input is free text for the chat service
MaxChatCalls == 3

\* the same, in SpecPage, where ChatUI and ChatComponent share the page
MaxPageCalls == 2
MaxLiveCalls == 1
MaxSkills == 3

\* the clock stops here
MaxTime == 45

\* resolveTaskId on its own: the longest task list, and the largest integer reference
MaxTasks == 3

MaxPosition == 5

\* setTimeout(..., 30000): the deadline, in seconds
Timeout == 30

\* the clock advances in steps of half the deadline
TickStep == Timeout \div 2

Builds == {"frontend", "unnamed"}

Calls == 1..(IF MaxCalls > MaxChatCalls THEN MaxCalls ELSE MaxChatCalls)

TaskId(k) == "00000000-0000-4000-8000-00000000000" \o ToString(k)

Task(id, title, description, completed) ==
    [id |-> id, title |-> title, description |-> description, completed |-> completed]

\* the list the parent component hands to ChatComponent (props.tasks), as loaded from the store
InitialTasks ==
    << Task(TaskId(1), "Buy milk", "", FALSE),
       Task(TaskId(2), "Call mom", "", TRUE),
       Task(TaskId(3), "Pay rent", "", FALSE) >>

\* what the user types into the input field
TypedInputs ==
    { "add task buy milk", "delete 2", "delete 9", "update 7 to x", "summarize my tasks" }

\* what the chat service may be sent, and the replies it gives, in SpecChat
ChatInputs == {"hello"}

PlainReplies == {[status |-> "success", message |-> "Hello! How can I help?"]}

\* the texts of the quick-action buttons
QuickActions ==
    { "Add a new task", "List all my tasks", "Complete task 1",
      "Update task 1 with new description", "Delete task 1", "Show task summary" }

\* bodies the chat endpoint answers a 2xx with: a plain reply, a reply that reads as a
\* request to add a task, and a body without the status/message shape
ChatReplies ==
    { [status |-> "success", message |-> "Hello! How can I help?"],
      [status |-> "success", message |-> "I will add a task to buy bread."],
      [status |-> "", message |-> ""] }

\* how a network transfer that is not aborted ends: 2xx, 401, another non-2xx status,
\* a rejected fetch (TypeError: Failed to fetch), or, for POST /api/tasks, a 2xx whose
\* body is empty
NetOutcomes == {"ok", "unauthorized", "error", "offline", "empty"}

MutatingOps == {"create", "delete", "complete", "update"}

(***************************************************************************)
(* State                                                                   *)
(***************************************************************************)
VARIABLES
    build,                    \* which lib/ layer is bundled
    detected,                 \* detectTaskOperation and detectTaskIntent on the texts in use
    now,                      \* the clock, in seconds
    inputMessage,             \* ChatComponent: useState('')
    isLoading,                \* ChatComponent: useState(false)
    messages,                 \* ChatComponent: the transcript
    tasks,                    \* the parent's task list (props.tasks, props.setTasks)
    nCalls,                   \* handleSendMessage invocations so far
    calls,                    \* per invocation: its closure and its pending network call
    currentAbortController,   \* chatApi: the module-level slot; 0 is null, else the call
                              \* whose sendMessage created the controller
    controller,               \* chatApi: per call, the AbortController sendMessage created
    timeoutId,                \* chatApi: per call, whether its setTimeout is still armed
    abortedBy,                \* history: what first aborted the call's chat controller
    store,                    \* the remote task store
    created,                  \* the remote task store: tasks created so far
    evaluated,                \* the last application of a pure helper on its own: the
                              \* function, its arguments and its value
    chatUI,                   \* ChatUI: whether it is mounted (isMountedRef), its messages,
                              \* its isLoading, and the calls its handleSend made
    skillsList                \* SkillsList: its state, the skills stored, the deletes under way

vars ==
    << build, detected, now, inputMessage, isLoading, messages, tasks, nCalls, calls,
       currentAbortController, controller, timeoutId, abortedBy, store, created, evaluated,
       chatUI, skillsList >>

chatVars == <<currentAbortController, controller, timeoutId, abortedBy>>

NoCall ==
    [ pc |-> "idle",          \* idle, chat (awaiting chatApi.sendMessage), store (awaiting api.*), done
      input |-> "",           \* currentInput
      op |-> "",              \* the operation awaited: create, delete, complete, update, list, summary, chat
      taskId |-> "",          \* the reference as typed
      id |-> "",              \* resolvedTaskId
      title |-> "",           \* the title sent (create, update)
      description |-> "",     \* the description sent (create, update)
      label |-> "",           \* taskTitle / oldTitle, for the success message
      startedAt |-> 0,        \* when the pending network call was dispatched
      aborted |-> FALSE,      \* the signal the pending fetch listens to has fired
      timer |-> FALSE,        \* api.request: its setTimeout is armed
      issued |-> 0,           \* history: task-store calls issued
      outcome |-> "" ]        \* history: how the last network call ended

Pending(c) == calls[c].pc \in {"chat", "store"}

\* a fetch whose signal has fired rejects in a microtask, before any other event is handled
Urgent == \E c \in Calls : Pending(c) /\ calls[c].aborted

Last(seq) == seq[Len(seq)]

Message(sender, text, c, outcome) ==
    [ sender |-> sender, text |-> text,
      call |-> c,                               \* history: the invocation that appended it
      outcome |-> outcome,                      \* history: the network outcome it reports
      stale |-> abortedBy[c] = "supersede" ]    \* history: a newer sendMessage had aborted the call

(***************************************************************************)
(* The remote task store and the network (spec section 6: an external      *)
(* collaborator).  A transfer ends with a response (status, body) or with  *)
(* a rejected fetch.                                                       *)
(***************************************************************************)
HttpResponse(status, body) ==
    [t |-> "response", status |-> status, body |-> body, name |-> "", message |-> ""]

Rejected(name, message) ==
    [t |-> "reject", status |-> 0, body |-> <<>>, name |-> name, message |-> message]

\* a response whose body is the empty text
EmptyResponse(status) ==
    [t |-> "empty", status |-> status, body |-> <<>>, name |-> "", message |-> ""]

\* what fetch rejects with when its signal fires
AbortRejection == Rejected("AbortError", "The user aborted a request.")

StoreHas(id) == \E k \in 1..Len(store) : store[k].id = id

StoredTask(id) == store[CHOOSE k \in 1..Len(store) : store[k].id = id]

\* the store after it has carried out the request of call record q
StoreAfter(q) ==
    CASE q.op = "create" ->
           Append(store, Task(TaskId(Len(InitialTasks) + created + 1), q.title, q.description, FALSE))
      [] q.op = "delete" -> SelectSeq(store, LAMBDA t : t.id # q.id)
      [] q.op = "complete" ->
           [k \in 1..Len(store) |->
               IF store[k].id = q.id THEN [store[k] EXCEPT !.completed = ~store[k].completed]
               ELSE store[k]]
      [] q.op = "update" ->
           [k \in 1..Len(store) |->
               IF store[k].id = q.id
               THEN [store[k] EXCEPT !.title = q.title, !.description = q.description]
               ELSE store[k]]
      [] OTHER -> store

\* the body of the 2xx response to the request of call record q
OkBody(q) ==
    CASE q.op = "create" -> Last(StoreAfter(q))
      [] q.op \in {"complete", "update"} ->
           LET after == StoreAfter(q)
           IN  after[CHOOSE k \in 1..Len(after) : after[k].id = q.id]
      [] q.op \in {"list", "summary"} -> store
      [] OTHER -> <<>>

\* a 2xx needs the task to exist; a request for a task the store does not hold gets a 404
CanSucceed(q) == q.op \in {"delete", "complete", "update"} => StoreHas(q.id)

ErrorStatus(q) == IF CanSucceed(q) THEN 500 ELSE 404

(***************************************************************************)
(* api.ts                                                                  *)
(***************************************************************************)
Thrown(name, message) == [kind |-> "throw", name |-> name, message |-> message, value |-> <<>>]

Returned(value) == [kind |-> "value", name |-> "", message |-> "", value |-> value]

ReturnedNull == [kind |-> "null", name |-> "", message |-> "", value |-> <<>>]

\* api.request: null on a 401, the response otherwise; in the frontend build an
\* AbortError (its own timer fired) is rethrown as Error "Request to ... timed out"
apiRequest(b, endpoint, net) ==
    IF net.t = "reject"
    THEN IF b = "frontend" /\ net.name = "AbortError"
         THEN Thrown("Error", "Request to " \o endpoint \o " timed out")
         ELSE Thrown(net.name, net.message)
    ELSE IF net.status = 401 THEN ReturnedNull
    ELSE Returned(net)

IsOk(status) == status >= 200 /\ status <= 299

\* {} read as a task: every field is undefined
EmptyObject == Task("", "", "", FALSE)

\* api.get, api.post, api.put, api.patch, api.delete
apiVerb(b, method, endpoint, net) ==
    LET response == apiRequest(b, endpoint, net)
    IN  IF response.kind # "value" THEN response
        ELSE IF ~IsOk(net.status)
             THEN Thrown("Error", "Request failed with status " \o ToString(net.status)
                                  \o (IF method = "POST" /\ b = "frontend" THEN ": " ELSE ""))
        ELSE IF method = "DELETE" THEN Returned([success |-> TRUE])
        ELSE IF net.t = "empty"
             \* frontend api.post: return {}; elsewhere response.json() rejects
             THEN IF method = "POST" /\ b = "frontend" THEN Returned(EmptyObject)
                  ELSE Thrown("SyntaxError", "Unexpected end of JSON input")
        ELSE Returned(net.body)

Method(op) ==
    CASE op \in {"create", "chat"} -> "POST"
      [] op = "delete" -> "DELETE"
      [] op = "complete" -> "PATCH"
      [] op = "update" -> "PUT"
      [] OTHER -> "GET"

Endpoint(q) ==
    CASE q.op = "chat" -> "/api/chat/"
      [] q.op \in {"delete", "update"} -> "/api/tasks/" \o q.id
      [] q.op = "complete" -> "/api/tasks/" \o q.id \o "/toggle"
      [] OTHER -> "/api/tasks"

(***************************************************************************)
(* chatApi.ts                                                              *)
(***************************************************************************)
ChatResponse(status, message) == [status |-> status, message |-> message]

TookTooLong == "The request took too long to complete. Please try again."

CannotConnect ==
    "Unable to connect to the chat service. Please check your connection and try again."

BackendDown ==
    "Unable to connect to the chat service. Please ensure the backend server is running."

SafeMessage == "I processed your request and here's the response from the AI assistant."

\* the tail of sendMessage once the body (response / responseData) is in hand
shapeResponse(body) ==
    IF body.status # ""
    THEN ChatResponse(body.status, IF body.message # "" THEN body.message ELSE SafeMessage)
    ELSE ChatResponse("error", "Received unexpected response format from the server.")

\* the two catch blocks of sendMessage, for an error (name, message) thrown in the inner try
caught(name, message) ==
    IF name = "AbortError" THEN ChatResponse("error", TookTooLong)
    ELSE IF name = "TypeError" /\ includes(message, "fetch") THEN ChatResponse("error", BackendDown)
    ELSE ChatResponse("error", CannotConnect)

\* what sendMessage resolves to when its transfer ends with net.
\* frontend: through api.post; unnamed: fetch, response.ok, response.json()
sendMessageResult(b, net) ==
    IF b = "frontend"
    THEN LET response == apiVerb(b, "POST", "/api/chat/", net)
         IN  CASE response.kind = "value" -> shapeResponse(response.value)
               [] response.kind = "null" ->
                    ChatResponse("fallback", "Authentication required. Please log in again.")
               [] response.kind = "throw" -> caught(response.name, response.message)
    ELSE IF net.t = "reject" THEN caught(net.name, net.message)
    ELSE IF ~IsOk(net.status)
         THEN caught("Error", "Request failed with status " \o ToString(net.status) \o ": ")
    ELSE shapeResponse(net.body)

\* AbortController.abort() on the controller sendMessage created in call k, seen from the
\* calls: in the unnamed build the fetch of call k listens to that signal; in the frontend
\* build api.post(endpoint, data) has no third parameter, so no fetch listens to it
abortFetch(b, k, cs) ==
    IF b = "unnamed" /\ cs[k].pc = "chat" THEN [cs EXCEPT ![k].aborted = TRUE] ELSE cs

(***************************************************************************)
(* ChatComponent.tsx: what each operation does with the result r of its    *)
(* api call (the code after the await)                                     *)
(***************************************************************************)
\* (err as Error).message || 'Unknown error'
Reason(r) == IF r.message # "" THEN r.message ELSE "Unknown error"

FailurePrefix(op) ==
    CASE op = "create" -> "[x] Failed to add task: "
      [] op = "delete" -> "[x] Failed to delete task: "
      [] op \in {"complete", "update"} -> "[x] Failed to update task: "
      [] op = "list" -> "[x] Failed to list tasks: "
      [] op = "summary" -> "[x] Failed to get task summary: "

NotFound(taskId) == "Task with ID/index " \o taskId \o " not found"

\* a variant that puts the created task in front
createTaskFirst(r, prevTasks) ==
    IF r.kind = "value" THEN <<r.value>> \o prevTasks ELSE prevTasks

\* setTasks(prevTasks => [...prevTasks, createdTask]), inside if (createdTask)
createTaskDone(r, prevTasks) ==
    IF r.kind = "value" THEN Append(prevTasks, r.value) ELSE prevTasks

\* a variant that removes the task whatever the store answered (optimistic removal)
deleteTaskOptimistic(q, r, prevTasks) == SelectSeq(prevTasks, LAMBDA task : task.id # q.id)

\* a variant that removes the first entry instead of the entry with the resolved id
deleteTaskFirst(q, r, prevTasks) ==
    IF r.kind = "value" /\ r.value.success /\ prevTasks # <<>> THEN Tail(prevTasks) ELSE prevTasks

\* setTasks(prevTasks => prevTasks.filter(task => task.id !== resolvedTaskId)),
\* inside if (result && result.success !== false)
deleteTaskDone(q, r, prevTasks) ==
    IF r.kind = "value" /\ r.value.success
    THEN SelectSeq(prevTasks, LAMBDA task : task.id # q.id)
    ELSE prevTasks

\* a variant that keeps the local entry and only flips or retitles it itself
replaceTaskLocally(q, r, prevTasks) ==
    IF r.kind = "value"
    THEN [k \in 1..Len(prevTasks) |->
             IF prevTasks[k].id # q.id THEN prevTasks[k]
             ELSE IF q.op = "complete"
                  THEN [prevTasks[k] EXCEPT !.completed = ~prevTasks[k].completed]
                  ELSE [prevTasks[k] EXCEPT !.title = q.title]]
    ELSE prevTasks

\* setTasks(prevTasks => prevTasks.map(task => task.id === resolvedTaskId ? updatedTask : task)),
\* inside if (updatedTask): toggleTaskCompletion and the update case
replaceTaskDone(q, r, prevTasks) ==
    IF r.kind = "value"
    THEN [k \in 1..Len(prevTasks) |-> IF prevTasks[k].id = q.id THEN r.value ELSE prevTasks[k]]
    ELSE prevTasks

\* a variant in which a list or summary input also replaces the local list by the fetched one
reconcileRefresh(q, r, prevTasks) ==
    CASE q.op = "create" -> createTaskDone(r, prevTasks)
      [] q.op = "delete" -> deleteTaskDone(q, r, prevTasks)
      [] q.op \in {"complete", "update"} -> replaceTaskDone(q, r, prevTasks)
      [] OTHER -> IF r.kind = "value" THEN r.value ELSE prevTasks

\* the task list after the continuation of call record q has run on r
reconcile(q, r, prevTasks) ==
    CASE q.op = "create" -> createTaskDone(r, prevTasks)
      [] q.op = "delete" -> deleteTaskDone(q, r, prevTasks)
      [] q.op \in {"complete", "update"} -> replaceTaskDone(q, r, prevTasks)
      [] OTHER -> prevTasks

RECURSIVE taskDescriptions(_)
\* taskList.map(task => `${task.id}: ${task.title} [${...}]`).join('\n')
taskDescriptions(taskList) ==
    IF taskList = <<>> THEN ""
    ELSE Head(taskList).id \o ": " \o Head(taskList).title
         \o " [" \o (IF Head(taskList).completed THEN "Completed" ELSE "Pending") \o "]"
         \o (IF Len(taskList) > 1 THEN "\n" ELSE "") \o taskDescriptions(Tail(taskList))

\* a variant that counts the tasks of the local list instead of the fetched one
summaryOfLocal(taskList) ==
    "Task Summary:\nTotal: " \o ToString(Len(tasks)) \o "\nCompleted: "
    \o ToString(Len(SelectSeq(tasks, LAMBDA task : task.completed)))
    \o "\nPending: " \o ToString(Len(SelectSeq(tasks, LAMBDA task : ~task.completed)))

summaryResponse(taskList) ==
    LET totalTasks == Len(taskList)
        completedTasks == Len(SelectSeq(taskList, LAMBDA task : task.completed))
        pendingTasks == totalTasks - completedTasks
    IN  "Task Summary:\nTotal: " \o ToString(totalTasks) \o "\nCompleted: "
        \o ToString(completedTasks) \o "\nPending: " \o ToString(pendingTasks)

\* the texts the continuation of call record q appends to the transcript
replies(q, r) ==
    IF r.kind = "throw" THEN << FailurePrefix(q.op) \o Reason(r) >>
    ELSE CASE q.op = "create" ->
                IF r.kind = "value"
                THEN << "[ok] Task \"" \o q.title \o "\" has been added successfully!" >>
                ELSE <<>>
           [] q.op = "delete" ->
                IF r.kind = "value" /\ r.value.success
                THEN << "[ok] Task \"" \o q.label \o "\" has been deleted successfully!" >>
                ELSE <<>>
           [] q.op = "complete" ->
                IF r.kind = "value"
                THEN << "[ok] Task \"" \o q.label \o "\" has been "
                        \o (IF r.value.completed THEN "completed" ELSE "marked as incomplete")
                        \o "!" >>
                ELSE <<>>
           [] q.op = "update" ->
                IF r.kind = "value"
                THEN << "[ok] Task \"" \o q.label \o "\" has been updated to \"" \o q.title \o "\"!" >>
                ELSE <<>>
           [] q.op = "list" ->
                IF r.kind = "value" /\ Len(r.value) > 0
                THEN << "Here are your tasks:\n" \o taskDescriptions(r.value) >>
                ELSE << "You have no tasks yet." >>
           [] q.op = "summary" ->
                IF r.kind = "value" THEN << summaryResponse(r.value) >>
                ELSE << "No tasks found to summarize." >>

(***************************************************************************)
(* ChatComponent.tsx and chatApi.ts: the synchronous part of each          *)
(* operation, up to its network call.  c is the invocation, q its closure  *)
(* record, msgs the transcript as the step has made it so far.  The        *)
(* dynamic import('../../lib/api') resolves from the module cache (chatApi *)
(* imports ./api statically) in a microtask, so it is part of the step.    *)
(***************************************************************************)
\* the closure record once the network call of operation op is on its way; api.request
\* arms its timer in the frontend build only, and the unnamed chatApi calls fetch itself
Dispatched(q, op) ==
    [q EXCEPT !.pc = IF op = "chat" THEN "chat" ELSE "store",
              !.op = op,
              !.startedAt = now,
              !.aborted = FALSE,
              !.timer = (build = "frontend"),
              !.issued = IF op = "chat" THEN @ ELSE @ + 1]

Finished(q, outcome) == [q EXCEPT !.pc = "done", !.outcome = outcome, !.timer = FALSE, !.aborted = FALSE]

TitleOf(id, taskList) ==
    IF \E k \in 1..Len(taskList) : taskList[k].id = id
    THEN taskList[CHOOSE k \in 1..Len(taskList) : taskList[k].id = id
                     /\ \A j \in 1..(k - 1) : taskList[j].id # id].title
    ELSE "task " \o id

DescriptionOf(id, taskList) ==
    IF \E k \in 1..Len(taskList) : taskList[k].id = id
    THEN taskList[CHOOSE k \in 1..Len(taskList) : taskList[k].id = id
                     /\ \A j \in 1..(k - 1) : taskList[j].id # id].description
    ELSE ""

\* a variant whose request carries the description in the place of the title
createTaskDescribed(c, q, title, description, msgs) ==
    /\ calls' = [calls EXCEPT ![c] = Dispatched([q EXCEPT !.title = description,
                                                          !.description = title], "create")]
    /\ messages' = msgs
    /\ UNCHANGED <<tasks, chatVars>>

\* createTask(title, description) up to await api.post('/api/tasks', newTaskData)
createTask(c, q, title, description, msgs) ==
    /\ calls' = [calls EXCEPT ![c] = Dispatched([q EXCEPT !.title = title,
                                                          !.description = description], "create")]
    /\ messages' = msgs
    /\ UNCHANGED <<tasks, chatVars>>

\* a variant that sends the request without looking at what resolveTaskId returned
referTaskUnresolved(c, q, op, taskId, title, msgs) ==
    /\ calls' = [calls EXCEPT ![c] =
                    Dispatched([q EXCEPT !.taskId = taskId, !.id = resolveTaskId(taskId, tasks),
                                         !.title = title], op)]
    /\ messages' = msgs
    /\ UNCHANGED <<tasks, chatVars>>

\* deleteTask, toggleTaskCompletion and the update case up to their await api.delete /
\* api.patch / api.put: resolve the reference against the tasks of the closure; an
\* unresolved reference throws into the catch block of the operation
referTask(c, q, op, taskId, title, msgs) ==
    LET resolvedTaskId == resolveTaskId(taskId, tasks)
        found == [q EXCEPT !.taskId = taskId, !.id = resolvedTaskId, !.title = title,
                           !.description = DescriptionOf(resolvedTaskId, tasks),
                           !.label = TitleOf(resolvedTaskId, tasks)]
    IN  /\ IF resolvedTaskId = ""
           THEN /\ calls' = [calls EXCEPT ![c] =
                                Finished([q EXCEPT !.op = op, !.taskId = taskId], "notFound")]
                /\ messages' = Append(msgs, Message("assistant",
                                   FailurePrefix(op) \o NotFound(taskId), c, "notFound"))
           ELSE /\ calls' = [calls EXCEPT ![c] = Dispatched(found, op)]
                /\ messages' = msgs
        /\ UNCHANGED <<tasks, chatVars>>

deleteTask(c, q, taskId, msgs) == referTask(c, q, "delete", taskId, "", msgs)

toggleTaskCompletion(c, q, taskId, msgs) == referTask(c, q, "complete", taskId, "", msgs)

updateTask(c, q, taskId, title, msgs) == referTask(c, q, "update", taskId, title, msgs)

\* the list and summary cases up to await api.get('/api/tasks')
getTasks(c, q, op, msgs) ==
    /\ calls' = [calls EXCEPT ![c] = Dispatched(q, op)]
    /\ messages' = msgs
    /\ UNCHANGED <<tasks, chatVars>>

\* chatApi.sendMessage(message) up to its await, for a message that is not blank (the
\* only kind handleSendMessage passes on): abort the controller in the slot, put a new
\* one there, arm the timer, start the transfer
sendMessage(c, q, msgs) ==
    LET cur == currentAbortController
    IN  /\ calls' = [(IF cur # 0 THEN abortFetch(build, cur, calls) ELSE calls)
                        EXCEPT ![c] = Dispatched(q, "chat")]
        /\ controller' = [k \in Calls |->
                             IF k = c THEN "live"
                             ELSE IF k = cur THEN "aborted" ELSE controller[k]]
        /\ abortedBy' = [k \in Calls |->
                            IF k = cur /\ controller[k] = "live" THEN "supersede"
                            ELSE abortedBy[k]]
        /\ currentAbortController' = c
        /\ timeoutId' = [timeoutId EXCEPT ![c] = TRUE]
        /\ messages' = msgs
        /\ UNCHANGED tasks

\* the switch cases whose if (taskOp.title) / if (taskOp.taskId) guard is false: break
skipOperation(c, q, op, msgs) ==
    /\ calls' = [calls EXCEPT ![c] = Finished([q EXCEPT !.op = op], "")]
    /\ messages' = msgs
    /\ UNCHANGED <<tasks, chatVars>>

\* detectTaskOperation and detectTaskIntent are pure: their values on the texts in use
\* are those computed at Init
operationOf(text) ==
    detected.operation[text]

intentOf(text) ==
    detected.intent[text]

\* handleSendMessage for a text that passes the blank check, up to the first network call
handleSendMessage(text) ==
    LET c == nCalls + 1
        taskOp == operationOf(text)
        q == [NoCall EXCEPT !.input = text]
        msgs == Append(messages, Message("user", text, c, "user"))
    IN  /\ nCalls' = c
        /\ inputMessage' = ""
        /\ CASE taskOp.operation = "create" ->
                  IF taskOp.title # "" THEN createTask(c, q, taskOp.title, text, msgs)
                  ELSE skipOperation(c, q, "create", msgs)
             [] taskOp.operation = "delete" ->
                  IF taskOp.taskId # "" THEN deleteTask(c, q, taskOp.taskId, msgs)
                  ELSE skipOperation(c, q, "delete", msgs)
             [] taskOp.operation = "complete" ->
                  IF taskOp.taskId # "" THEN toggleTaskCompletion(c, q, taskOp.taskId, msgs)
                  ELSE skipOperation(c, q, "complete", msgs)
             [] taskOp.operation = "update" ->
                  IF taskOp.taskId # "" /\ taskOp.title # ""
                  THEN updateTask(c, q, taskOp.taskId, taskOp.title, msgs)
                  ELSE skipOperation(c, q, "update", msgs)
             [] taskOp.operation \in {"list", "summary"} -> getTasks(c, q, taskOp.operation, msgs)
             [] OTHER -> sendMessage(c, q, msgs)
        \* setIsLoading(true) ... finally setIsLoading(false)
        /\ isLoading' = (calls'[c].pc # "done")
        /\ UNCHANGED <<build, skillsList, detected, evaluated, chatUI, now, store, created>>

\* every text sendMessage can resolve to
ResponseTexts ==
    {reply.message : reply \in ChatReplies}
    \cup { SafeMessage, TookTooLong, CannotConnect, BackendDown,
           "Authentication required. Please log in again.",
           "Received unexpected response format from the server." }

\* the page as mounted: ChatComponent constructed, nothing in flight
\* ChatUI before the chat page is opened
\* rendered is the isLoading of the render on screen: the value the handleSend closure and
\* the disabled prop of MessageInput hold until the component renders again
NotMounted ==
    [mounted |-> "no", messages |-> <<>>, isLoading |-> FALSE, rendered |-> FALSE, calls |-> {}]

\* the welcome message of ChatUI
Welcome == "Hello! I'm your AI assistant. How can I help you with your tasks today?"

Mounted ==
    /\ build \in Builds
    /\ detected = [ operation |-> [text \in TypedInputs \cup ChatInputs \cup QuickActions |->
                                     detectTaskOperation(text)],
                    intent |-> [text \in ResponseTexts |-> detectTaskIntent(text)] ]
    /\ now = 0
    /\ inputMessage = ""
    /\ isLoading = FALSE
    /\ messages = <<>>
    /\ tasks = InitialTasks
    /\ nCalls = 0
    /\ calls = [c \in Calls |-> NoCall]
    /\ currentAbortController = 0
    /\ controller = [c \in Calls |-> "none"]
    /\ timeoutId = [c \in Calls |-> FALSE]
    /\ abortedBy = [c \in Calls |-> "none"]
    /\ store = InitialTasks
    /\ created = 0
    /\ chatUI = NotMounted
    \* SkillsList: useState([]), useState(true), useState(null); the skills the user has
    \* stored; no delete under way
    /\ skillsList = [skills |-> <<>>, loading |-> TRUE, error |-> "",
                     remote |-> 1..MaxSkills, deletes |-> {}]

NoEvaluation == [fn |-> "", args |-> <<>>, value |-> <<>>]

Init == Mounted /\ evaluated = NoEvaluation

(***************************************************************************)
(* Actions                                                                 *)
(***************************************************************************)
\* the user types into the input field (disabled={isLoading})
TypeInput(text, limit) ==
    /\ ~Urgent
    /\ ~isLoading
    /\ nCalls < limit
    /\ inputMessage = ""
    /\ inputMessage' = text
    /\ UNCHANGED <<build, skillsList, detected, evaluated, chatUI, now, isLoading, messages, tasks, nCalls, calls, chatVars, store, created>>

\* the form is submitted (the Send button is disabled={isLoading || !inputMessage.trim()})
Submit(limit) ==
    /\ ~Urgent
    /\ ~isLoading
    /\ nCalls < limit
    /\ trim(inputMessage) # ""
    /\ handleSendMessage(inputMessage)

\* handleQuickAction(action): setInputMessage(action), then handleSendMessage, which reads
\* inputMessage from the closure of the last render.  The buttons are never disabled.
\* When handleSendMessage returns at its blank check the input field is left holding
\* action; otherwise its setInputMessage('') is the later update.
handleQuickAction(action, limit) ==
    /\ ~Urgent
    /\ nCalls < limit
    /\ IF trim(inputMessage) = ""
       THEN /\ inputMessage # action
            /\ inputMessage' = action
            /\ UNCHANGED <<build, skillsList, detected, evaluated, chatUI, now, isLoading, messages, tasks, nCalls, calls, chatVars,
                           store, created>>
       ELSE handleSendMessage(inputMessage)

\* a variant in which ChatUI shows the answer alone, in place of the transcript
handleSendSettledAlone(c, net, outcome) ==
    LET q == [calls[c] EXCEPT !.outcome = outcome, !.timer = FALSE, !.aborted = FALSE]
        response == sendMessageResult(build, net)
        text == IF response.message # "" THEN response.message ELSE SafeMessage
    IN  /\ timeoutId' = [timeoutId EXCEPT ![c] = FALSE]
        /\ currentAbortController' = 0
        /\ calls' = [calls EXCEPT ![c] = Finished(q, outcome)]
        /\ chatUI' = IF chatUI.mounted = "yes"
                     THEN [chatUI EXCEPT
                              !.messages = << Message("assistant", text, c, outcome) >>,
                              !.isLoading = FALSE]
                     ELSE chatUI
        /\ UNCHANGED <<build, skillsList, detected, evaluated, now, inputMessage, isLoading, messages, tasks,
                       nCalls, controller, abortedBy>>

\* ChatUI.handleSend after await chatApi.sendMessage(text), for its call c: sendMessage
\* clears its timer and the slot and resolves; the component appends the answer and
\* resets isLoading only if (isMountedRef.current)
handleSendSettled(c, net, outcome) ==
    LET q == [calls[c] EXCEPT !.outcome = outcome, !.timer = FALSE, !.aborted = FALSE]
        response == sendMessageResult(build, net)
        text == IF response.message # "" THEN response.message ELSE SafeMessage
    IN  /\ timeoutId' = [timeoutId EXCEPT ![c] = FALSE]
        /\ currentAbortController' = 0
        /\ calls' = [calls EXCEPT ![c] = Finished(q, outcome)]
        /\ chatUI' = IF chatUI.mounted = "yes"
                     THEN [chatUI EXCEPT
                              !.messages = Append(@, Message("assistant", text, c, outcome)),
                              !.isLoading = FALSE]
                     ELSE chatUI
        /\ UNCHANGED <<build, skillsList, detected, evaluated, now, inputMessage, isLoading, messages, tasks,
                       nCalls, controller, abortedBy>>

\* ChatComponent: the code after the await of call c, run on the end net of its transfer
handleSendMessageSettled(c, net, outcome) ==
    LET q == [calls[c] EXCEPT !.outcome = outcome, !.timer = FALSE, !.aborted = FALSE]
    IN  /\ IF q.pc = "chat"
           THEN LET response == sendMessageResult(build, net)
                    safeResponseText ==
                        IF response.message # "" THEN response.message ELSE SafeMessage
                    taskIntent == intentOf(safeResponseText)
                    said == Append(messages, Message("assistant", safeResponseText, c, outcome))
                IN  \* clearTimeout(timeoutId); currentAbortController = null
                    /\ timeoutId' = [timeoutId EXCEPT ![c] = FALSE]
                    /\ currentAbortController' = 0
                    /\ UNCHANGED <<controller, abortedBy, tasks>>
                    /\ messages' = said
                    /\ IF taskIntent.isTaskIntent
                       THEN calls' = [calls EXCEPT ![c] =
                                Dispatched([q EXCEPT !.title = taskIntent.title,
                                                     !.description = taskIntent.description],
                                           "create")]
                       ELSE calls' = [calls EXCEPT ![c] = Finished(q, outcome)]
           ELSE LET r == apiVerb(build, Method(q.op), Endpoint(q), net)
                    said == replies(q, r)
                IN  /\ tasks' = reconcile(q, r, tasks)
                    /\ messages' = messages \o
                           [k \in 1..Len(said) |-> Message("assistant", said[k], c, outcome)]
                    /\ calls' = [calls EXCEPT ![c] = Finished(q, outcome)]
                    /\ UNCHANGED chatVars
        \* finally { setIsLoading(false) }
        /\ isLoading' = IF calls'[c].pc = "done" THEN FALSE ELSE isLoading
        /\ UNCHANGED <<build, skillsList, detected, evaluated, chatUI, now, inputMessage, nCalls>>

\* the code after the await of call c, in the component that made the call
Settle(c, net, outcome) ==
    IF c \in chatUI.calls THEN handleSendSettled(c, net, outcome)
    ELSE handleSendMessageSettled(c, net, outcome)

\* the transfer of call c ends: the store carries out a request it answers with a 2xx
Respond(c, outcome, reply) ==
    LET q == calls[c]
        net == CASE outcome = "empty" -> EmptyResponse(200)
                 [] outcome = "ok" ->
                      HttpResponse(200, IF q.op = "chat" THEN reply ELSE OkBody(q))
                 [] outcome = "unauthorized" -> HttpResponse(401, <<>>)
                 [] outcome = "error" -> HttpResponse(ErrorStatus(q), <<>>)
                 [] outcome = "offline" -> Rejected("TypeError", "Failed to fetch")
    IN  /\ ~Urgent
        /\ Pending(c)
        /\ outcome = "ok" => CanSucceed(q)
        /\ outcome = "empty" => q.op = "create"
        /\ store' = IF outcome \in {"ok", "empty"} THEN StoreAfter(q) ELSE store
        /\ created' = IF outcome \in {"ok", "empty"} /\ q.op = "create" THEN created + 1
                      ELSE created
        /\ Settle(c, net, outcome)

\* the fetch of call c rejects with AbortError because its signal fired
AbortSettle(c) ==
    /\ Pending(c)
    /\ calls[c].aborted
    /\ Settle(c, AbortRejection,
              IF calls[c].pc = "chat" /\ build = "unnamed" /\ abortedBy[c] = "supersede"
              THEN "superseded"
              ELSE IF calls[c].pc = "chat" /\ build = "unnamed"
                      /\ abortedBy[c] \in {"cancel", "blank"}
              THEN "cancelled" ELSE "timeout")
    /\ UNCHANGED <<store, created>>

Due(c) == now >= calls[c].startedAt + Timeout

\* chatApi: setTimeout(() => currentAbortController?.abort(), 30000) of call c fires
ChatTimeout(c) ==
    LET cur == currentAbortController
    IN  /\ ~Urgent
        /\ timeoutId[c]
        /\ Due(c)
        /\ timeoutId' = [timeoutId EXCEPT ![c] = FALSE]
        /\ calls' = IF cur # 0 THEN abortFetch(build, cur, calls) ELSE calls
        /\ controller' = [k \in Calls |-> IF k = cur THEN "aborted" ELSE controller[k]]
        /\ abortedBy' = [k \in Calls |->
                            IF k = cur /\ controller[k] = "live" THEN "timer" ELSE abortedBy[k]]
        /\ UNCHANGED <<build, skillsList, detected, evaluated, chatUI, now, inputMessage, isLoading, messages, tasks, nCalls,
                       currentAbortController, store, created>>

\* api.request (frontend build): setTimeout(() => controller.abort(), 30000) of the pending
\* call of c fires; it was armed after the timer of sendMessage, so it fires after it
ApiTimeout(c) ==
    /\ ~Urgent
    /\ Pending(c)
    /\ calls[c].timer
    /\ Due(c)
    /\ ~timeoutId[c]
    /\ calls' = [calls EXCEPT ![c].timer = FALSE, ![c].aborted = TRUE]
    /\ UNCHANGED <<build, skillsList, detected, evaluated, chatUI, now, inputMessage, isLoading, messages, tasks, nCalls, chatVars,
                   store, created>>

\* time passes while a transfer is pending; a timer that is due fires first
Tick ==
    /\ ~Urgent
    /\ now < MaxTime
    /\ \E c \in Calls : Pending(c)
    /\ \A c \in Calls : (timeoutId[c] \/ (Pending(c) /\ calls[c].timer)) => ~Due(c)
    /\ now' = now + TickStep
    /\ UNCHANGED <<build, skillsList, detected, evaluated, chatUI, inputMessage, isLoading, messages, tasks, nCalls, calls, chatVars,
                   store, created>>

\* before the conversation starts, another session of the user completes the first task:
\* the store is ahead of the list the page holds
StoreChangedElsewhere ==
    /\ nCalls = 0
    /\ inputMessage = ""
    /\ store = InitialTasks
    /\ store' = [store EXCEPT ![1].completed = TRUE]
    /\ UNCHANGED <<build, skillsList, detected, evaluated, chatUI, now, inputMessage, isLoading, messages, tasks,
                   nCalls, calls, chatVars, created>>

Next ==
    \/ StoreChangedElsewhere
    \/ \E text \in TypedInputs : TypeInput(text, MaxCalls)
    \/ Submit(MaxCalls)
    \/ \E action \in QuickActions : handleQuickAction(action, MaxCalls)
    \/ \E c \in Calls, outcome \in NetOutcomes, reply \in ChatReplies : Respond(c, outcome, reply)
    \/ \E c \in Calls : AbortSettle(c)
    \/ \E c \in Calls : ChatTimeout(c)
    \/ \E c \in Calls : ApiTimeout(c)
    \/ Tick

Spec == Init /\ [][Next]_vars

\* a conversation of free text only: every input goes to the chat service, which
\* answers plainly
NextChat ==
    \/ \E text \in ChatInputs : TypeInput(text, MaxChatCalls)
    \/ Submit(MaxChatCalls)
    \/ \E action \in {a \in QuickActions : ~operationOf(a).isTaskOperation} :
            handleQuickAction(action, MaxChatCalls)
    \/ \E c \in Calls, outcome \in NetOutcomes, reply \in PlainReplies : Respond(c, outcome, reply)
    \/ \E c \in Calls : AbortSettle(c)
    \/ \E c \in Calls : ChatTimeout(c)
    \/ \E c \in Calls : ApiTimeout(c)
    \/ Tick

SpecChat == Init /\ [][NextChat]_vars

(***************************************************************************)
(* ChatUI.tsx: the chat page, a second component that talks to the chat    *)
(* service through the same chatApi module                                 *)
(***************************************************************************)
\* ChatUI is mounted: useState([]), then the effect setMessages([welcomeMessage])
MountChatUI ==
    /\ ~Urgent
    /\ chatUI.mounted = "no"
    /\ chatUI' = [chatUI EXCEPT !.mounted = "yes",
                                !.messages = << [sender |-> "assistant", text |-> Welcome,
                                                   call |-> 0, outcome |-> "", stale |-> FALSE] >>]
    /\ UNCHANGED <<build, skillsList, detected, evaluated, now, inputMessage, isLoading, messages, tasks,
                   nCalls, calls, chatVars, store, created>>

\* ChatUI renders again after setIsLoading: a new handleSend closure, a new disabled prop
RenderChatUI ==
    /\ chatUI.mounted = "yes"
    /\ chatUI.rendered # chatUI.isLoading
    /\ chatUI' = [chatUI EXCEPT !.rendered = chatUI.isLoading]
    /\ UNCHANGED <<build, skillsList, detected, evaluated, now, inputMessage, isLoading, messages, tasks,
                   nCalls, calls, chatVars, store, created>>

\* ChatUI.handleSend(text), up to await chatApi.sendMessage(text); MessageInput is
\* disabled={isLoading}; isLoading is the constant of the render the closure belongs to
handleSend(text, limit) ==
    LET c == nCalls + 1
    IN  /\ ~Urgent
        /\ chatUI.mounted = "yes"
        /\ nCalls < limit
        /\ ~(trim(text) = "" \/ chatUI.rendered)
        /\ nCalls' = c
        /\ chatUI' = [chatUI EXCEPT !.messages = Append(@, Message("user", text, c, "user")),
                                    !.isLoading = TRUE,
                                    !.calls = @ \cup {c}]
        /\ sendMessage(c, [NoCall EXCEPT !.input = text], messages)
        /\ UNCHANGED <<build, skillsList, detected, evaluated, now, inputMessage, isLoading, store, created>>

\* ChatUI is unmounted: the cleanup runs chatApi.cancelCurrentRequest(), which aborts the
\* controller in the slot and empties the slot, and isMountedRef.current = false
UnmountChatUI ==
    LET cur == currentAbortController
    IN  /\ ~Urgent
        /\ chatUI.mounted = "yes"
        /\ chatUI' = [chatUI EXCEPT !.mounted = "gone"]
        /\ calls' = IF cur # 0 THEN abortFetch(build, cur, calls) ELSE calls
        /\ controller' = [k \in Calls |-> IF k = cur THEN "aborted" ELSE controller[k]]
        /\ abortedBy' = [k \in Calls |->
                            IF k = cur /\ controller[k] = "live" THEN "cancel" ELSE abortedBy[k]]
        /\ currentAbortController' = 0
        /\ UNCHANGED <<build, skillsList, detected, evaluated, now, inputMessage, isLoading, messages, tasks,
                       nCalls, timeoutId, store, created>>

\* ChatUI and ChatComponent alive in the same page session: free text typed into ChatUI,
\* free text and task commands typed into ChatComponent
NextPage ==
    \/ MountChatUI
    \/ RenderChatUI
    \/ \E text \in ChatInputs : handleSend(text, MaxPageCalls)
    \/ UnmountChatUI
    \/ \E text \in ChatInputs \cup TypedInputs : TypeInput(text, MaxPageCalls)
    \/ Submit(MaxPageCalls)
    \/ \E c \in Calls, outcome \in NetOutcomes, reply \in PlainReplies : Respond(c, outcome, reply)
    \/ \E c \in Calls : AbortSettle(c)
    \/ \E c \in Calls : ChatTimeout(c)
    \/ \E c \in Calls : ApiTimeout(c)
    \/ Tick

SpecPage == Init /\ [][NextPage]_vars

(***************************************************************************)
(* One submission followed to its end.  The timers of setTimeout fire and  *)
(* a rejected fetch runs its continuation: the event loop sees to that.    *)
(* Whether the remote side ever answers is the network's affair.           *)
(***************************************************************************)
NextLive ==
    \/ \E text \in ChatInputs \cup TypedInputs : TypeInput(text, MaxLiveCalls)
    \/ Submit(MaxLiveCalls)
    \/ \E c \in Calls, outcome \in NetOutcomes, reply \in PlainReplies : Respond(c, outcome, reply)
    \/ \E c \in Calls : AbortSettle(c)
    \/ \E c \in Calls : ChatTimeout(c)
    \/ \E c \in Calls : ApiTimeout(c)
    \/ Tick

\* the remote side may stay silent for ever
SpecLive ==
    /\ Init /\ [][NextLive]_vars
    /\ WF_vars(Tick)
    /\ \A c \in Calls : WF_vars(ChatTimeout(c)) /\ WF_vars(ApiTimeout(c)) /\ WF_vars(AbortSettle(c))

\* every transfer ends: the remote side answers unless a timer was first
SpecResponsive ==
    /\ SpecLive
    /\ \A c \in Calls :
           WF_vars(\E outcome \in NetOutcomes, reply \in PlainReplies : Respond(c, outcome, reply))

(***************************************************************************)
(* SkillsList.tsx: the list of the user's skills, a skill being its id.    *)
(* skillsList.deletes holds, for each handleDelete waiting for             *)
(* skillsApi.delete, the id and the skills constant of its closure.        *)
(***************************************************************************)
\* fetchSkills() of the mount effect settles: setSkills(data || []) or setError, then
\* setLoading(false)
fetchSkills(fetched) ==
    /\ skillsList.loading
    /\ skillsList' = IF fetched
                     THEN [skillsList EXCEPT
                              !.skills = [k \in 1..MaxSkills |-> k], !.loading = FALSE]
                     ELSE [skillsList EXCEPT
                              !.error = "Failed to fetch skills", !.loading = FALSE]
    /\ UNCHANGED <<build, detected, evaluated, chatUI, now, inputMessage, isLoading, messages,
                   tasks, nCalls, calls, chatVars, store, created>>

\* a Delete button of the rendered list is clicked: handleDelete(id) up to
\* await skillsApi.delete(id)
handleDelete(id) ==
    /\ ~skillsList.loading
    /\ skillsList.error = ""
    /\ \E k \in 1..Len(skillsList.skills) : skillsList.skills[k] = id
    /\ \A d \in skillsList.deletes : d.id # id
    /\ skillsList' = [skillsList EXCEPT
                         !.deletes = @ \cup {[id |-> id, skills |-> skillsList.skills]}]
    /\ UNCHANGED <<build, detected, evaluated, chatUI, now, inputMessage, isLoading, messages,
                   tasks, nCalls, calls, chatVars, store, created>>

\* skillsApi.delete(id) of the handleDelete d settles: setSkills(skills.filter(skill =>
\* skill.id !== id)) with the skills of the closure, or setError in the catch
handleDeleteSettled(d, deleted) ==
    /\ d \in skillsList.deletes
    /\ deleted => d.id \in skillsList.remote
    /\ skillsList' =
           IF deleted
           THEN [skillsList EXCEPT
                    !.remote = @ \ {d.id},
                    !.deletes = @ \ {d},
                    !.skills = SelectSeq(d.skills, LAMBDA skill : skill # d.id)]
           ELSE [skillsList EXCEPT !.deletes = @ \ {d}, !.error = "Failed to delete skill"]
    /\ UNCHANGED <<build, detected, evaluated, chatUI, now, inputMessage, isLoading, messages,
                   tasks, nCalls, calls, chatVars, store, created>>

NextSkills ==
    \/ \E fetched \in BOOLEAN : fetchSkills(fetched)
    \/ \E id \in 1..MaxSkills : handleDelete(id)
    \/ \E d \in skillsList.deletes, deleted \in BOOLEAN : handleDeleteSettled(d, deleted)

SpecSkills == Init /\ [][NextSkills]_vars

(***************************************************************************)
(* chatApi called by code other than the two components: sendMessage with  *)
(* a message the components never pass on                                  *)
(***************************************************************************)
\* chatApi.sendMessage(message) for a message that is empty or white space: the controller
\* in the slot is aborted first, then the validation returns the error response
sendBlankMessage(message) ==
    LET cur == currentAbortController
    IN  /\ ~Urgent
        /\ evaluated.fn = ""
        /\ trim(message) = ""
        /\ calls' = IF cur # 0 THEN abortFetch(build, cur, calls) ELSE calls
        /\ controller' = [k \in Calls |-> IF k = cur THEN "aborted" ELSE controller[k]]
        /\ abortedBy' = [k \in Calls |->
                            IF k = cur /\ controller[k] = "live" THEN "blank" ELSE abortedBy[k]]
        /\ evaluated' = [fn |-> "sendMessage", args |-> <<message>>,
                         value |-> ChatResponse("error", "Message cannot be empty")]
        /\ UNCHANGED <<build, skillsList, detected, chatUI, now, inputMessage, isLoading, messages, tasks,
                       nCalls, currentAbortController, timeoutId, store, created>>

\* a conversation of free text in ChatComponent, and a caller that passes blank messages
NextApi ==
    \/ \E message \in {"", "  "} : sendBlankMessage(message)
    \/ \E text \in ChatInputs : TypeInput(text, MaxPageCalls)
    \/ Submit(MaxPageCalls)
    \/ \E action \in {a \in QuickActions : ~operationOf(a).isTaskOperation} :
            handleQuickAction(action, MaxPageCalls)
    \/ \E c \in Calls, outcome \in NetOutcomes, reply \in PlainReplies : Respond(c, outcome, reply)
    \/ \E c \in Calls : AbortSettle(c)
    \/ \E c \in Calls : ChatTimeout(c)
    \/ \E c \in Calls : ApiTimeout(c)
    \/ Tick

SpecApi == Init /\ [][NextApi]_vars

(***************************************************************************)
(* The pure helpers on their own: resolveTaskId and detectTaskOperation    *)
(* applied to arguments drawn from bounded sets                            *)
(***************************************************************************)
\* tasks a list handed to resolveTaskId is cut from
TaskPool == InitialTasks \o << Task(TaskId(4), "Walk dog", "", TRUE) >>

\* the task lists: every run of at most MaxTasks consecutive tasks of the pool
TaskLists ==
    {l \in {SubSeq(TaskPool, i, j) : i \in 1..Len(TaskPool), j \in 0..Len(TaskPool)} :
        Len(l) <= MaxTasks}

\* the integers a reference is written from: negative, zero, in and out of range
Positions == (0 - MaxPosition)..MaxPosition

\* references written as integers
PositionReferences == {ToString(p) : p \in Positions}

\* references of the UUID shape: the id of a listed task, of no task, and one in capitals
UuidReferences == {TaskId(1), TaskId(9), "ABCDEF00-0000-4000-8000-00000000000A"}

\* other references the delete, complete and update patterns capture ([a-fA-F0-9\-]+)
OtherReferences == {"2abc", "1-2", "abc", "-", "a1", "00"}

References == PositionReferences \cup UuidReferences \cup OtherReferences

\* inputs around the create pattern: verb, noun, optional filler, title
CreateInputs ==
    {verb \o noun \o filler \o title :
        verb \in {"add", "Create"}, noun \in {" task ", " a todo "},
        filler \in {"", "to ", "called "},
        title \in {"buy milk", "Buy milk. Then eggs", ".", "to. x", "1 apple", "for  mom",
                   "buy milk! now", "about eggs? yes. no"}}

\* resolveTaskId(taskId) with the component's tasks being taskList
\* inputs around the other patterns: each operation, texts two patterns could claim,
\* texts no pattern matches, update texts that lack a part, and texts typed with white
\* space before or after them
OperationInputs ==
    {"delete 2", "Remove task 3 now", "complete 1", "mark it complete 2", "Done task 1-2",
     "list tasks", "Show all my tasks", "show task summary", "get task 1",
     "summarize my tasks", "stats of tasks", "report",
     "update 1 to Buy groceries", "Change task 2 With Call Dad", "edit abc as  x ",
     "update 1", "update 1 to", "update to Buy groceries", "update task to x",
     "hello", "Add a new task", "please delete 2",
     " add task buy milk", "add task buy milk ", "delete 2 ", "  list tasks ",
     " update 1 to Buy groceries", "complete 1  "}

\* the parts an update input is typed from: verb, optional "task", reference, linking
\* word, new title; an empty reference or title is a missing one
UpdateParts ==
    [ verb |-> {"update", "Edit"},
      prefix |-> {" ", " task "},
      ref |-> {"", "1", "abc"},
      link |-> {" ", " to ", " With "},
      title |-> {"", "Buy groceries", "x  "} ]

UpdateInputs ==
    {verb \o prefix \o ref \o link \o title :
        verb \in UpdateParts.verb, prefix \in UpdateParts.prefix, ref \in UpdateParts.ref,
        link \in UpdateParts.link, title \in UpdateParts.title}

Resolve(taskId, taskList) ==
    /\ evaluated.fn = ""
    /\ evaluated' = [fn |-> "resolveTaskId", args |-> <<taskId, taskList>>,
                     value |-> resolveTaskId(taskId, taskList)]
    /\ UNCHANGED <<build, skillsList, detected, chatUI, now, inputMessage, isLoading, messages, tasks, nCalls, calls,
                   chatVars, store, created>>

\* detectTaskOperation(userInput)
Classify(userInput) ==
    /\ evaluated.fn = ""
    /\ evaluated' = [fn |-> "detectTaskOperation", args |-> <<userInput>>,
                     value |-> detectTaskOperation(userInput)]
    /\ UNCHANGED <<build, skillsList, detected, chatUI, now, inputMessage, isLoading, messages, tasks, nCalls, calls,
                   chatVars, store, created>>

\* String.prototype.startsWith
startsWith(s, prefix) ==
    Len(s) >= Len(prefix) /\ SubSeq(s, 1, Len(prefix)) = prefix

\* const publicRoutes = ['/', '/login', '/register']
publicRoutes == << "/", "/login", "/register" >>

\* config.matcher '/((?!api|_next/static|_next/image|favicon.ico).*)': the paths the
\* middleware is run for
matcher(pathname) ==
    LET rest == Slice(pathname, 2)
    IN  /\ startsWith(pathname, "/")
        /\ ~startsWith(rest, "api")
        /\ ~startsWith(rest, "_next/static")
        /\ ~startsWith(rest, "_next/image")
        /\ ~(startsWith(rest, "favicon") /\ Len(rest) >= 11 /\ SubSeq(rest, 9, 11) = "ico")

\* middleware(request): "next" is NextResponse.next(), "redirect" the redirect to /login,
\* "unauthorized" the 401 response.  "" stands for a cookie or header that is absent.
middleware(request) ==
    LET pathname == request.pathname
        header == request.authorization
        at == IF includes(header, "Bearer ")
              THEN CHOOSE k \in 1..Len(header) :
                       /\ SubSeq(header, k, k + 6) = "Bearer "
                       /\ \A j \in 1..(k - 1) : SubSeq(header, j, j + 6) # "Bearer "
              ELSE 0
        bearer == IF at = 0 THEN header
                  ELSE SubSeq(header, 1, at - 1) \o Slice(header, at + 7)
        token == IF request.cookie # "" THEN request.cookie ELSE bearer
        isPublicRoute == \E k \in 1..Len(publicRoutes) : startsWith(pathname, publicRoutes[k])
    IN  IF isPublicRoute THEN "next"
        ELSE IF token = ""
             THEN IF startsWith(pathname, "/api/") THEN "unauthorized" ELSE "redirect"
             ELSE "next"

\* requests: public pages, protected pages, paths of the API and of static files, each
\* with and without the token cookie and the authorization header
Requests ==
    [ pathname : { "/", "/login", "/register", "/chat", "/tasks", "/skills/1",
                   "/api/tasks", "/_next/static/a.js", "/favicon.ico" },
      cookie : { "", "jwt" },
      authorization : { "", "Bearer ", "Bearer jwt" } ]

\* a request arrives: Next.js runs the middleware for the paths of config.matcher and lets
\* every other request through
Middleware(request) ==
    /\ evaluated.fn = ""
    /\ evaluated' = [fn |-> "middleware", args |-> <<request>>,
                     value |-> IF matcher(request.pathname) THEN middleware(request)
                               ELSE "next"]
    /\ UNCHANGED <<build, skillsList, detected, chatUI, now, inputMessage, isLoading, messages, tasks, nCalls, calls,
                   chatVars, store, created>>

\* the tasks the store may return to a toggle: any id of the pool, either title, either flag
ReturnedTasks ==
    {Task(TaskId(k), title, "", completed) :
        k \in 1..Len(TaskPool), title \in {"Buy milk", "Pay rent"}, completed \in BOOLEAN}

\* the reconciliation of toggleTaskCompletion, run once and then once more with the same
\* resolvedTaskId and the same updatedTask
Reconcile(resolvedTaskId, updatedTask, prevTasks) ==
    LET q == [NoCall EXCEPT !.op = "complete", !.id = resolvedTaskId]
        once == replaceTaskDone(q, Returned(updatedTask), prevTasks)
    IN  /\ evaluated.fn = ""
        /\ evaluated' = [fn |-> "reconcile", args |-> <<resolvedTaskId, updatedTask, prevTasks>>,
                         value |-> <<once, replaceTaskDone(q, Returned(updatedTask), once)>>]
        /\ UNCHANGED <<build, skillsList, detected, chatUI, now, inputMessage, isLoading, messages, tasks, nCalls,
                       calls, chatVars, store, created>>

\* how a transfer to the task store can end: a status of each family with a body that
\* parses, and the two ways fetch rejects
Transfers ==
    {HttpResponse(status, Task(TaskId(1), "Buy milk", "", FALSE)) :
        status \in {200, 201, 301, 400, 401, 403, 404, 500}}
    \cup {Rejected("TypeError", "Failed to fetch"), AbortRejection}

Methods == {"GET", "POST", "PUT", "PATCH", "DELETE"}

\* api.get / post / put / patch / delete on '/api/tasks', its transfer ending with net
Request(method, net) ==
    /\ evaluated.fn = ""
    /\ evaluated' = [fn |-> "api", args |-> <<method, net>>,
                     value |-> apiVerb(build, method, "/api/tasks", net)]
    /\ UNCHANGED <<build, skillsList, detected, chatUI, now, inputMessage, isLoading, messages, tasks, nCalls,
                   calls, chatVars, store, created>>

NextPure ==
    \/ \E method \in Methods, net \in Transfers : Request(method, net)
    \/ \E k \in 1..Len(TaskPool), updatedTask \in ReturnedTasks, prevTasks \in TaskLists :
           Reconcile(TaskId(k), updatedTask, prevTasks)
    \/ \E taskId \in References, taskList \in TaskLists : Resolve(taskId, taskList)
    \/ \E userInput \in CreateInputs \cup OperationInputs \cup UpdateInputs :
           Classify(userInput)
    \/ \E request \in Requests : Middleware(request)

SpecPure == Init /\ [][NextPure]_vars

(***************************************************************************)
(* Properties                                                              *)
(***************************************************************************)
\* a chat request that has started, has not settled and whose controller was not aborted
InFlight(c) == calls[c].pc = "chat" /\ controller[c] = "live"

\* this step runs the code after the await of call c
Settles(c) == Pending(c) /\ calls'[c].pc # calls[c].pc

\* this step is the handleSendMessage invocation number c
Submits(c) == nCalls = c - 1 /\ nCalls' = c

\* C1: after any sequence of sendMessage calls, completions, aborts and timer firings,
\* at most one chat request is in flight (started, not settled, not aborted), also for
\* three overlapping calls where the abort handler of the first runs after the second
\* has started.
C1_SingleFlight == Cardinality({c \in Calls : InFlight(c)}) <= 1

\* C2: when the abort controller of a pending chat request is signalled, the transfer of
\* exactly that request is aborted: the signal sendMessage created is the one its fetch
\* listens to.
C2_AbortObserved ==
    \A c \in Calls : (calls[c].pc = "chat" /\ controller[c] = "aborted") => calls[c].aborted

\* C3: a request cancelled because a newer one began is silent: its settlement appends
\* nothing to the transcript, no timeout-style message either.
C3_SupersededSilent == \A k \in 1..Len(messages) : ~messages[k].stale

\* C4: when input B is dispatched before the operation of an earlier input A has
\* settled, the settlement of A does not change the local task list.
C4_StaleSettlementDiscarded ==
    [][\A c \in Calls : (Settles(c) /\ nCalls > c) => tasks' = tasks]_vars

\* C5: every dispatched request has its own deadline of 30 time units: a request is never
\* pending, with its transfer not aborted, later than 30 units after its dispatch,
\* whatever other requests were dispatched, superseded or settled meanwhile.
C5_OwnDeadline ==
    \A c \in Calls : (Pending(c) /\ ~calls[c].aborted) => now <= calls[c].startedAt + Timeout

\* C6: the failure shown for a request that exceeded its deadline is worded differently
\* from the failure shown for a generic store or transport failure, for chat requests
\* and for task-store requests.
C6_TimeoutWording ==
    \A i, j \in 1..Len(messages) :
        (/\ messages[i].sender = "assistant" /\ messages[i].outcome = "timeout"
         /\ messages[j].sender = "assistant" /\ messages[j].outcome \in {"error", "offline"})
        => messages[i].text # messages[j].text

\* C7: the local task list changes only in the step that processes a successful store
\* response of a create, delete, complete or update operation; no other step between an
\* input and the confirmation of the store changes it.
C7_NoOptimisticMutation ==
    [][tasks' # tasks =>
          \E c \in Calls : /\ calls[c].pc = "store" /\ Settles(c)
                            /\ calls[c].op \in MutatingOps
                            /\ calls'[c].outcome \in {"ok", "empty"}]_vars

\* C7 happens: a delete the store confirmed has removed a task from the local list
C7_Witness ==
    \E c \in Calls : /\ calls[c].pc = "done" /\ calls[c].op = "delete"
                      /\ calls[c].outcome = "ok"
                      /\ Len(tasks) < Len(InitialTasks)

\* C8: when the store call of a create, delete, complete or update operation fails
\* (transport error or non-success status), the step that handles the failure leaves the
\* local task list as it was and appends exactly one failure message with a reason.
C8_StoreFailure ==
    [][\A c \in Calls :
          (/\ calls[c].pc = "store" /\ Settles(c)
           /\ calls[c].op \in MutatingOps
           /\ calls'[c].outcome \in {"error", "offline", "unauthorized"})
          => /\ tasks' = tasks
             /\ Len(messages') = Len(messages) + 1
             /\ Last(messages').sender = "assistant"
             /\ includes(Last(messages').text, "Failed to ")]_vars

\* C9: when the reference of a delete, update or complete input does not resolve to a
\* task id, the input issues no network call to the task store, the local task list is
\* unchanged and a failure message naming the reference is appended.
C9_UnresolvedReference ==
    [][\A c \in Calls :
          (/\ Submits(c)
           /\ operationOf(calls'[c].input).operation \in {"delete", "complete", "update"}
           /\ resolveTaskId(operationOf(calls'[c].input).taskId, tasks) = "")
          => /\ calls'[c].pc = "done"
             /\ calls'[c].issued = 0
             /\ tasks' = tasks /\ store' = store
             /\ Len(messages') = Len(messages) + 2
             /\ Last(messages').sender = "assistant"
             /\ includes(Last(messages').text, "Failed to ")
             /\ includes(Last(messages').text,
                         operationOf(calls'[c].input).taskId)]_vars

\* C9 happens: an input whose reference names no task has been handled
C9_Witness ==
    \E c \in Calls :
        /\ calls[c].pc = "done"
        /\ operationOf(calls[c].input).operation \in {"delete", "complete", "update"}
        /\ calls[c].id = "" /\ calls[c].issued = 0
        /\ \E k \in 1..Len(messages) :
               messages[k].call = c /\ includes(messages[k].text, "not found")

\* C10: no failure escapes: sendMessage resolves to a response for every network outcome,
\* and every network call of a task operation or chat call that ends in a failure puts a
\* message in the transcript.
C10_FailureShown ==
    [][\A c \in Calls :
          (Settles(c) /\ calls'[c].outcome # "ok")
          => /\ Len(messages') > Len(messages)
             /\ Last(messages').sender = "assistant"
             /\ Last(messages').text # ""]_vars

\* the entry of list l whose id is id
Entry(l, id) == l[CHOOSE k \in 1..Len(l) : l[k].id = id]

\* this step runs the code after the await of call c on a 2xx answer to operation op
Confirms(c, op) ==
    calls[c].pc = "store" /\ Settles(c) /\ calls[c].op = op /\ calls'[c].outcome = "ok"

\* the success message of call c came after the success message of the later call d
AnsweredAfter(c, d) ==
    \E i, j \in 1..Len(messages) :
        /\ i < j
        /\ messages[i].call = d /\ messages[i].sender = "assistant" /\ messages[i].outcome = "ok"
        /\ messages[j].call = c /\ messages[j].sender = "assistant" /\ messages[j].outcome = "ok"

\* C11: after a successful create the local task list is the previous list with the task
\* the store returned appended at the end; the tasks already there keep content and order.
C11_CreateAppends ==
    [][\A c \in Calls : Confirms(c, "create") => tasks' = Append(tasks, Last(store'))]_vars

\* C11 happens: a create was confirmed and the list is one longer
C11_Witness ==
    \E c \in Calls : /\ calls[c].pc = "done" /\ calls[c].op = "create"
                      /\ calls[c].outcome = "ok"
                      /\ Len(tasks) = Len(InitialTasks) + 1
                      /\ Last(tasks).title = calls[c].title

\* C12: after a successful delete the local task list is the previous list without the
\* task of the resolved id; every other task stays, unchanged and in order, also when the
\* list changed between dispatch and confirmation.
C12_DeleteRemoves ==
    [][\A c \in Calls :
          Confirms(c, "delete")
          => tasks' = SelectSeq(tasks, LAMBDA task : task.id # calls[c].id)]_vars

\* C12 happens: a delete was confirmed after a later operation had changed the list
C12_Witness ==
    /\ calls[1].pc = "done" /\ calls[1].op = "delete" /\ calls[1].outcome = "ok"
    /\ calls[2].pc = "done" /\ calls[2].op \in MutatingOps /\ calls[2].outcome = "ok"
    /\ AnsweredAfter(1, 2)
    /\ \A k \in 1..Len(tasks) : tasks[k].id # calls[1].id

\* C13: after a successful complete or update, the entry of the local list with the
\* resolved id is replaced, in place, by the task representation the store returned; no
\* other entry changes.
C13_ReplaceByStore ==
    [][\A c \in Calls :
          (Confirms(c, "complete") \/ Confirms(c, "update"))
          => /\ Len(tasks') = Len(tasks)
             /\ \A k \in 1..Len(tasks) :
                    tasks'[k] = IF tasks[k].id = calls[c].id
                                THEN Entry(store', calls[c].id) ELSE tasks[k]]_vars

\* C13 happens: a toggle was confirmed by a store that was ahead of the page, and the
\* local entry now carries the completed value of the store, not the flipped local one
C13_Witness ==
    \E c \in Calls :
        /\ calls[c].pc = "done" /\ calls[c].op = "complete" /\ calls[c].outcome = "ok"
        /\ calls[c].id = InitialTasks[1].id
        /\ tasks[1].completed = InitialTasks[1].completed
        /\ tasks[1] = Entry(store, calls[c].id)

\* C14: a list or summary input never changes the local task list, whether its store
\* call succeeds or fails; it only appends a message to the transcript.
C14_ListSummaryFrame ==
    [][\A c \in Calls :
          (/\ \/ Submits(c) /\ calls'[c].op \in {"list", "summary"}
              \/ Settles(c) /\ calls[c].op \in {"list", "summary"})
          => /\ tasks' = tasks
             /\ Settles(c) => /\ Len(messages') = Len(messages) + 1
                               /\ Last(messages').sender = "assistant"]_vars

\* C14 happens: a list or summary was answered while the store was ahead of the page
C14_Witness ==
    \E c \in Calls : /\ calls[c].pc = "done" /\ calls[c].op \in {"list", "summary"}
                      /\ calls[c].outcome = "ok"
                      /\ store # tasks

\* C15: the summary message reports Total = the number of tasks the store returned,
\* Completed = the number of those that are completed, Pending = Total - Completed,
\* whatever the local list holds.
C15_SummaryCounts ==
    [][\A c \in Calls :
          Confirms(c, "summary")
          => LET total == Len(store)
                 completed == Cardinality({k \in 1..Len(store) : store[k].completed})
             IN  Last(messages').text =
                     "Task Summary:\nTotal: " \o ToString(total)
                     \o "\nCompleted: " \o ToString(completed)
                     \o "\nPending: " \o ToString(total - completed)]_vars

\* C15 happens: a store holding 3 tasks, 2 of them completed, while the page holds 1
\* completed task, was summarised as Total: 3, Completed: 2, Pending: 1
C15_Witness ==
    /\ Len(SelectSeq(tasks, LAMBDA task : task.completed)) = 1
    /\ \E k \in 1..Len(messages) :
           /\ includes(messages[k].text, "Total: 3")
           /\ includes(messages[k].text, "Completed: 2")
           /\ includes(messages[k].text, "Pending: 1")

\* resolveTaskId has been applied on its own
Resolved == evaluated.fn = "resolveTaskId"

\* detectTaskOperation has been applied on its own
Classified == evaluated.fn = "detectTaskOperation"

\* s is the decimal writing of a positive integer
IsPositiveInteger(s) ==
    /\ s # ""
    /\ \A k \in 1..Len(s) : IsDigit(Char(s, k))
    /\ \E k \in 1..Len(s) : Char(s, k) # "0"

\* C16: for every reference that is an integer p and every task list of length n,
\* resolveTaskId returns the id of the task at index p-1 if and only if 1 <= p <= n; for
\* p = 0, negative p and p > n it returns not-found, whatever the list holds.
C16_PositionResolves ==
    Resolved =>
        \A p \in Positions :
            evaluated.args[1] = ToString(p)
            => evaluated.value = IF 1 <= p /\ p <= Len(evaluated.args[2])
                                 THEN evaluated.args[2][p].id ELSE ""

\* C16 happens: the last position of a list of MaxTasks tasks was resolved
C16_Witness ==
    /\ Resolved
    /\ evaluated.args[1] = ToString(MaxTasks)
    /\ Len(evaluated.args[2]) = MaxTasks
    /\ evaluated.value = evaluated.args[2][MaxTasks].id

\* C17: a reference that is neither of the UUID shape nor a positive integer resolves to
\* not-found; a token that only begins with digits ("2abc", "1-2") is not read as a
\* position.
C17_OnlyPositiveIntegers ==
    (/\ Resolved
     /\ evaluated.args[1] \notin UuidReferences
     /\ ~IsPositiveInteger(evaluated.args[1]))
    => evaluated.value = ""

\* C18: a reference of the UUID shape is returned unchanged, whether or not a task with
\* that id is in the list and whatever the list holds.
C18_UuidUnchanged ==
    (Resolved /\ evaluated.args[1] \in UuidReferences) => evaluated.value = evaluated.args[1]

\* C18 happens: a UUID that no task of a non-empty list has was resolved to itself
C18_Witness ==
    /\ Resolved
    /\ evaluated.args[1] = TaskId(9)
    /\ evaluated.args[2] # <<>>
    /\ evaluated.value = TaskId(9)

\* C20: for every input that matches the create pattern the extracted title is non-empty
\* and its first character is capitalized; an input whose title is empty after truncation
\* and stripping is classified as unknown, not as create.
C20_CreateTitle ==
    (Classified /\ evaluated.value.operation = "create")
    => /\ evaluated.value.title # ""
       /\ UpperCh(Char(evaluated.value.title, 1)) = Char(evaluated.value.title, 1)

\* C19: an input classified as unknown is passed through to the chat service and nothing
\* more: whatever the service replies, the input issues no task-store operation and its
\* handling leaves the local task list unchanged.
C19_UnknownPassThrough ==
    [][\A c \in Calls :
          (calls'[c].pc # "idle" /\ ~operationOf(calls'[c].input).isTaskOperation)
          => /\ calls'[c].issued = 0
             /\ Settles(c) => tasks' = tasks]_vars

\* the free text the create pattern captures from an input as typed (match[1])
Captured(userInput) == execAnchored(createPattern, userInput, TRUE)[1][1]

\* the 1-based position of the first '.', '!' or '?' of s, 0 when it holds none
RECURSIVE firstTerminator(_, _)
firstTerminator(s, k) ==
    IF k > Len(s) THEN 0
    ELSE IF Char(s, k) \in {".", "!", "?"} THEN k
    ELSE firstTerminator(s, k + 1)

\* s up to, and without, its first sentence-terminating punctuation mark
uptoTerminator(s) ==
    IF firstTerminator(s, 1) = 0 THEN s ELSE SubSeq(s, 1, firstTerminator(s, 1) - 1)

\* C21: the create title is the captured free text truncated at the first
\* sentence-terminating punctuation mark (period, exclamation mark or question mark), then
\* stripped of one leading filler preposition (to, for, about, regarding), then with its
\* first letter capitalized.
C21_TitleExtraction ==
    (Classified /\ evaluated.value.operation = "create")
    => evaluated.value.title
           = capitalize(stripFiller(trim(uptoTerminator(trim(Captured(evaluated.args[1]))))))

\* the patterns in the order detectTaskOperation tries them
PatternOrder ==
    << [operation |-> "create", pattern |-> createPattern],
       [operation |-> "delete", pattern |-> deletePattern],
       [operation |-> "complete", pattern |-> completePattern],
       [operation |-> "list", pattern |-> listPattern],
       [operation |-> "summary", pattern |-> summaryPattern],
       [operation |-> "update", pattern |-> updatePattern] >>

\* the places in PatternOrder of the patterns an input matches, white space around it
\* and letter case set aside
Matching(userInput) ==
    {k \in 1..Len(PatternOrder) :
        testAnchored(PatternOrder[k].pattern, trim(toLowerCase(userInput)), TRUE)}

\* C22: for every input, the operation returned by detectTaskOperation is that of the
\* first pattern, in the order create, delete, complete, list, summary, update, that the
\* input matches, and it is unknown if and only if the input matches none of them; this
\* holds also for inputs with leading or trailing white space.
C22_FirstMatchWins ==
    Classified =>
        LET hits == Matching(evaluated.args[1])
        IN  IF hits = {} THEN ~evaluated.value.isTaskOperation
            ELSE /\ evaluated.value.isTaskOperation
                 /\ \E k \in hits :
                        /\ \A j \in hits : k <= j
                        /\ evaluated.value.operation = PatternOrder[k].operation

\* C23: an update input yields operation update only when both a reference and a new title
\* are present, with the reference and the title as typed ("update 1 to Buy groceries"
\* gives reference "1" and title "Buy groceries"); if either is missing the input is
\* classified as unknown.
C23_UpdateParts ==
    Classified =>
        /\ evaluated.value.operation = "update"
           => evaluated.value.taskId # "" /\ evaluated.value.title # ""
        /\ \A verb \in UpdateParts.verb, prefix \in UpdateParts.prefix,
              ref \in UpdateParts.ref, link \in UpdateParts.link, title \in UpdateParts.title :
               evaluated.args[1] = verb \o prefix \o ref \o link \o title
               => /\ (ref = "" \/ title = "") => ~evaluated.value.isTaskOperation
                  /\ evaluated.value.operation = "update"
                     => evaluated.value.taskId = ref /\ evaluated.value.title = trim(title)
        /\ evaluated.args[1] = "update 1 to Buy groceries"
           => evaluated.value = TaskOperation("update", "1", "Buy groceries")

\* C23 happens: an update typed in capitals, with "task" before the reference, was
\* classified as an update of that reference to that title
C23_Witness ==
    /\ Classified
    /\ evaluated.args[1] = "Edit task abc With Buy groceries"
    /\ evaluated.value = TaskOperation("update", "abc", "Buy groceries")

\* the reconciliation of a complete outcome has been applied on its own, twice
Reconciled == evaluated.fn = "reconcile"

\* C24: reconciling a complete outcome twice with the same store-returned task yields the
\* same local task list as reconciling it once (replace-by-id is idempotent), for every
\* list and every returned task.
C24_ReplaceIdempotent == Reconciled => evaluated.value[2] = evaluated.value[1]

\* C24 happens: a reconciliation that changed the completed flag of a listed task was
\* run twice
C24_Witness ==
    /\ Reconciled
    /\ evaluated.value[1] # evaluated.args[3]
    /\ evaluated.args[2].id = evaluated.args[1]
    /\ \E k \in 1..Len(evaluated.args[3]) :
           /\ evaluated.args[3][k].id = evaluated.args[1]
           /\ evaluated.args[3][k].completed # evaluated.value[2][k].completed

\* call d was submitted after the success message of call c was shown
SubmittedAfter(d, c) ==
    \E i, j \in 1..Len(messages) :
        /\ i < j
        /\ messages[i].call = c /\ messages[i].sender = "assistant" /\ messages[i].outcome = "ok"
        /\ messages[j].call = d /\ messages[j].sender = "user"

\* the line of the list message for a task
ListLine(task) ==
    task.id \o ": " \o task.title \o " [" \o (IF task.completed THEN "Completed" ELSE "Pending") \o "]"

\* C25: round trip: a successful create with title T directly followed by a list yields a
\* task whose title is T and whose completed flag is false: the list message shows a task
\* that was not there before, titled T and pending.
C25_CreateListRoundTrip ==
    [][\A c, d \in Calls :
          (/\ d = c + 1
           /\ calls[c].op = "create" /\ calls[c].pc = "done" /\ calls[c].outcome = "ok"
           /\ operationOf(calls[c].input).operation = "create"
           /\ SubmittedAfter(d, c)
           /\ Confirms(d, "list"))
          => \E k \in 1..Len(store) :
                 /\ \A j \in 1..Len(InitialTasks) : store[k].id # InitialTasks[j].id
                 /\ store[k].title = operationOf(calls[c].input).title
                 /\ ~store[k].completed
                 /\ includes(Last(messages').text, ListLine(store[k]))]_vars

\* C25 happens: "add task buy milk" was confirmed, then a list was asked for and answered
\* with the new task
C25_Witness ==
    /\ calls[1].input = "add task buy milk" /\ calls[1].op = "create"
    /\ calls[1].pc = "done" /\ calls[1].outcome = "ok"
    /\ SubmittedAfter(2, 1)
    /\ calls[2].op = "list" /\ calls[2].pc = "done" /\ calls[2].outcome = "ok"
    /\ includes(Last(messages).text, TaskId(Len(InitialTasks) + 1) \o ": Buy milk [Pending]")

\* transcript before is still there, entry by entry, at the front of transcript after
Extends(after, before) ==
    /\ Len(after) >= Len(before)
    /\ SubSeq(after, 1, Len(before)) = before

\* C26: the transcript is append-only: every step of every operation leaves the existing
\* transcript entries unchanged as a prefix of the new transcript, in ChatComponent and
\* in ChatUI; entries are never removed, reordered or modified.
C26_AppendOnly ==
    [][Extends(messages', messages) /\ Extends(chatUI'.messages, chatUI.messages)]_vars

\* C26 happens: both transcripts hold a question and the answer to it
C26_Witness ==
    /\ Len(messages) >= 2 /\ messages[1].sender = "user" /\ messages[2].sender = "assistant"
    /\ Len(chatUI.messages) >= 3
    /\ chatUI.messages[1].text = Welcome
    /\ chatUI.messages[2].sender = "user" /\ chatUI.messages[3].sender = "assistant"

\* C27: in every reachable state the ids of the tasks in the local task list are pairwise
\* distinct, after any sequence of create, delete, complete and update reconciliations.
C27_UniqueIds ==
    \A i, j \in 1..Len(tasks) : i # j => tasks[i].id # tasks[j].id

\* a method of api has been applied on its own
Requested == evaluated.fn = "api"

\* C28: every non-2xx result and every thrown transport error of a task-store call
\* reaches the caller as the same single kind of failure outcome (an error thrown to the
\* caller), whatever the HTTP status family; this includes a 401 response.
C28_SingleFailureKind ==
    (/\ Requested
     /\ \/ evaluated.args[2].t = "reject"
        \/ ~IsOk(evaluated.args[2].status))
    => evaluated.value.kind = "throw"

\* the component whose handler made call k, ui being the state of ChatUI
Owner(k, ui) == IF k \in ui.calls THEN "ChatUI" ELSE "ChatComponent"

\* the components whose code runs in this step against chatApi: the one that sends, the
\* ChatUI that unmounts, the one whose sendMessage armed the timer that fires or whose
\* request settles
Acting ==
    {Owner(k, chatUI') : k \in {c \in Calls : nCalls' = c /\ nCalls = c - 1}}
    \cup {o \in {"ChatUI"} : chatUI.mounted = "yes" /\ chatUI'.mounted = "gone"}
    \cup {Owner(k, chatUI) : k \in {c \in Calls : timeoutId[c] /\ ~timeoutId'[c]}}

\* this step aborts the controller of the pending chat request k or takes k out of the slot
Disturbs(k) ==
    /\ calls[k].pc = "chat"
    /\ \/ controller[k] = "live" /\ controller'[k] = "aborted"
       \/ currentAbortController = k /\ currentAbortController' # k

\* C29: independent conversations do not interfere: a sendMessage or cancelCurrentRequest
\* issued by one component (ChatUI unmounting, say) never aborts, times out or clears the
\* pending request of another component (ChatComponent, say).
C29_NoInterference ==
    [][\A k \in Calls : Disturbs(k) => Acting \subseteq {Owner(k, chatUI)}]_vars

\* C30: the pending-request slot tracks the request in flight: in every reachable state
\* currentAbortController is the controller of the most recently started request if and
\* only if that request has not yet settled, and the settlement of an older request never
\* clears or replaces the slot of a newer request.
C30_SlotTracksLatest ==
    [][/\ nCalls' > 0 => (currentAbortController' = nCalls' <=> calls'[nCalls'].pc = "chat")
       /\ \A c \in Calls :
              (Settles(c) /\ currentAbortController # c)
              => currentAbortController' = currentAbortController]_vars

\* C31: a request is aborted by a timeout timer only by its own timer and never earlier
\* than Timeout after its own dispatch: the timer armed for request A never aborts the
\* controller of a different request B that has since become the current request.
C31_OwnTimer ==
    [][\A k \in Calls :
          (controller[k] = "live" /\ controller'[k] = "aborted" /\ abortedBy'[k] = "timer")
          => /\ timeoutId[k] /\ ~timeoutId'[k]
             /\ now >= calls[k].startedAt + Timeout]_vars

\* C32: a sendMessage call with an empty or whitespace-only message returns the error
\* outcome "Message cannot be empty" without issuing a network call and without affecting
\* any request in flight: no controller is aborted and the pending slot is unchanged.
C32_BlankMessageFrame ==
    [][(evaluated.fn = "" /\ evaluated'.fn = "sendMessage")
       => /\ evaluated'.value = ChatResponse("error", "Message cannot be empty")
          /\ calls' = calls
          /\ controller' = controller
          /\ currentAbortController' = currentAbortController]_vars

\* C33: every submitted non-empty input eventually results in at least one assistant entry
\* in the transcript, for every classification of the input and every store response, a 401
\* included, provided each network call eventually responds or times out.
C33_EventuallyAnswered ==
    \A c \in Calls :
        [](nCalls >= c
           => <>(\E i \in 1..Len(messages) :
                    messages[i].call = c /\ messages[i].sender = "assistant"))

\* C34: after every submission the loading flag eventually returns to false: every
\* dispatched chat or task-store request eventually settles, even if the remote side never
\* responds.
C34_LoadingEnds == [](isLoading => <>(~isLoading))

\* C35: in ChatUI at most one sendMessage call is outstanding at a time: a handleSend
\* invoked while a previous handleSend has not finished appends nothing to the transcript
\* and issues no request, also when it is invoked before the component has rendered again
\* with the loading flag set.
C35_OneOutstanding ==
    [][\A c \in Calls :
          (Submits(c) /\ c \in chatUI'.calls)
          => \A k \in chatUI.calls : calls[k].pc = "done"]_vars

\* C36: when ChatUI unmounts while a request of its own is in flight, the transfer of that
\* request is aborted, and after the unmount no transcript entry is appended and the
\* loading flag is not written, whatever the request's eventual outcome.
C36_UnmountCancels ==
    [][/\ (chatUI.mounted = "yes" /\ chatUI'.mounted = "gone")
          => \A k \in chatUI.calls : Pending(k) => calls'[k].aborted
       /\ chatUI.mounted = "gone"
          => /\ chatUI'.messages = chatUI.messages
             /\ chatUI'.isLoading = chatUI.isLoading]_vars

\* C37: clicking a quick-action button submits exactly that button's action text as the
\* input, whatever the input field held before the click.  Only a click writes a button's
\* text into the input field (TypedInputs has none of them), so the click is the step where
\* the field comes to hold the text: that step must be the submission of that text.
C37_QuickActionSubmits ==
    [][\A action \in QuickActions :
          (inputMessage # action /\ inputMessage' = action)
          => \E c \in Calls : Submits(c) /\ calls'[c].input = action]_vars

\* C38: a request to a protected (non-public) route that carries no token is never allowed
\* through by the middleware: it is redirected to /login, or answered with 401 for /api/
\* paths; only the routes /, /login and /register are reachable without a token.
C38_ProtectedRoutes ==
    (/\ evaluated.fn = "middleware"
     /\ evaluated.args[1].pathname \notin {"/", "/login", "/register"}
     /\ evaluated.args[1].cookie = ""
     /\ evaluated.args[1].authorization \in {"", "Bearer "})
    => evaluated.value = IF startsWith(evaluated.args[1].pathname, "/api/")
                         THEN "unauthorized" ELSE "redirect"

\* C39: after any interleaving of successful deletions of skills in SkillsList, no deleted
\* skill is present in the local skills list: when deletes of skills A and B overlap, the
\* list after both have completed contains neither A nor B.
C39_DeletedStayDeleted ==
    \A k \in 1..Len(skillsList.skills) : skillsList.skills[k] \in skillsList.remote

====
